---- MODULE Spec2Model ----
(***************************************************************************)
(* Retrieval core of CD-Agent: the workspace store (server/workspaceDb),   *)
(* the RAG service (server/rag) and the pattern store (server/patternDb).  *)
(*                                                                         *)
(* Text is a sequence of character codes.  An embedding is kept as the     *)
(* bag-of-hashed-tokens count vector before normalisation (sparse: slot -> *)
(* count); cosine similarities are compared exactly, as the real numbers   *)
(* dot / sqrt(normA * normB), by cross multiplication.                     *)
(***************************************************************************)
EXTENDS Integers, Sequences, FiniteSets, TLC

VARIABLES
  dbAvailable,   \* getDb() returns a handle
  queryFails,    \* the database rejects the statements sent through the handle
  ret,           \* how the call that ended last ended, and the store it met
  cs,            \* the chat.send request in flight
  ck,            \* the chunkDocument call in flight
  rpc,           \* per user, the patterns.get / update / delete request in flight
  rd,            \* the loadEmbeddings and the searchKnowledge call between their statements
  workspaces,    \* table workspaces: row id -> [parentId, isArchived]; ids are 1..Len
  wk,            \* the hierarchy resolver call in flight
  documents,     \* table knowledge_documents: row id -> row; ids are 1..Len
  chunks,        \* table knowledge_chunks: a set of rows
  nextChunkId,   \* the auto-increment counter of knowledge_chunks
  vectorStore,   \* rag: the in-memory Map chunk id -> embedding
  ix,            \* indexDocument calls in flight, by caller
  sk,            \* the searchKnowledge call that returned last, with its result
  patterns,      \* table copy_patterns: a set of rows
  nextPatternId, \* the auto-increment counter of copy_patterns
  pq,            \* the pattern query that returned last, with its result
  iu,            \* incrementUsage calls in flight, by caller
  now,           \* the wall clock, in seconds
  usageLog       \* per pattern id: the incrementUsage calls made, the time of the latest

wsVars == <<workspaces, wk>>
ragVars == <<documents, chunks, nextChunkId, vectorStore, ix, sk>>
usageVars == <<iu, now, usageLog>>
patVars == <<patterns, nextPatternId, pq, usageVars>>
envVars == <<dbAvailable, queryFails, ret, cs, ck, rpc, rd>>

(***************************************************************************)
(* Bounds                                                                  *)
(***************************************************************************)
MaxWs == 3

\* the resolver loop is cut off after this many ids (a cyclic chain never ends)
MaxWalk == MaxWs + 2

\* NULL of a nullable int column (ids start at 1; 0 is falsy like null)
Null == 0

WsIds == 1..MaxWs

\* values a parentId column may hold: NULL, or any id (no foreign key)
ParentIds == 0..MaxWs

(***************************************************************************)
(* Text: sequences of character codes                                      *)
(***************************************************************************)
Min(S) == CHOOSE a \in S : \A b \in S : a <= b

Max(S) == CHOOSE a \in S : \A b \in S : a >= b

\* /[.!?]/
Delimiters == {46, 33, 63}

\* /\s/ and String.prototype.trim
WhiteSpace == {9, 10, 11, 12, 13, 32}

Space == 32

\* /\w/
IsWordChar(c) == c \in (48..57) \cup (65..90) \cup (97..122) \cup {95}

\* String.prototype.toLowerCase on one character
ToLower(c) == IF c \in 65..90 THEN c + 32 ELSE c

\* String.prototype.trim
Trim(s) ==
  LET keep == {i \in 1..Len(s) : s[i] \notin WhiteSpace}
  IN  IF keep = {} THEN <<>> ELSE SubSeq(s, Min(keep), Max(keep))

RECURSIVE RunsFrom(_, _, _)
\* the maximal runs of characters outside seps at or after position from, in
\* order: the non-empty pieces of s.split(/[seps]+/)
RunsFrom(s, seps, from) ==
  LET n == Len(s)
      st == {i \in from..n : s[i] \notin seps}
  IN  IF st = {} THEN <<>>
      ELSE LET a == Min(st)
               en == {j \in a..n : s[j] \in seps}
               b == IF en = {} THEN n ELSE Min(en) - 1
           IN  <<SubSeq(s, a, b)>> \o RunsFrom(s, seps, b + 1)

(***************************************************************************)
(* Chunker                                                                 *)
(***************************************************************************)
\* default parameters of chunkDocument
DefaultChunkSize == 500

DefaultOverlap == 100

\* content split at spaces as well as at delimiters
Sentences_Words(content) ==
  SelectSeq(RunsFrom(content, Delimiters \cup {Space}, 1), LAMBDA s : Len(Trim(s)) > 0)

\* content.split(/[.!?]+/) without the filter
Sentences_Unfiltered(content) == RunsFrom(content, Delimiters, 1)

\* content.split(/[.!?]+/).filter(s => s.trim().length > 0)
Sentences(content) ==
  SelectSeq(RunsFrom(content, Delimiters, 1), LAMBDA s : Len(Trim(s)) > 0)

\* currentChunk.split(' ').slice(-k).join(' '): the text after the k-th space
\* from the end; slice(-0) is slice(0), the whole list
LastWords(currentChunk, k) ==
  LET sp == {i \in 1..Len(currentChunk) : currentChunk[i] = Space}
  IN  IF k = 0 \/ Cardinality(sp) < k THEN currentChunk
      ELSE LET p == CHOOSE q \in sp : Cardinality({r \in sp : r >= q}) = k
           IN  SubSeq(currentChunk, p + 1, Len(currentChunk))

RECURSIVE ChunkLoop(_, _, _, _, _)
\* the for loop of chunkDocument over the sentences left, and the final push
ChunkLoop(sentences, out, currentChunk, chunkSize, overlap) ==
  IF sentences = <<>>
    THEN IF Len(Trim(currentChunk)) > 0 THEN Append(out, Trim(currentChunk)) ELSE out
    ELSE LET trimmedSentence == Trim(Head(sentences))
         IN  IF /\ Len(currentChunk \o <<Space>> \o trimmedSentence) > chunkSize
                /\ Len(currentChunk) > 0
               THEN ChunkLoop(Tail(sentences), Append(out, Trim(currentChunk)),
                              LastWords(currentChunk, overlap \div 5)
                                \o <<Space>> \o trimmedSentence,
                              chunkSize, overlap)
               ELSE ChunkLoop(Tail(sentences), out,
                              currentChunk
                                \o (IF currentChunk # <<>> THEN <<Space>> ELSE <<>>)
                                \o trimmedSentence,
                              chunkSize, overlap)

chunkDocument(content, chunkSize, overlap) ==
  ChunkLoop(Sentences(content), <<>>, <<>>, chunkSize, overlap)

(***************************************************************************)
(* Chunker: chunkDocument, one sentence of the for loop per step           *)
(***************************************************************************)
IdleChunk == [pc |-> "idle"]

\* no request of the patterns router in flight, for either user
IdleRpc == [u \in {1, 2} |-> [pc |-> "idle"]]

\* neither loadEmbeddings nor searchKnowledge is between its select and its loop
IdleReaders == [load |-> [pc |-> "idle"], search |-> [pc |-> "idle"]]

\* const chunks = []; const sentences = ...; let currentChunk = ''
ChunkStart(content, chunkSize, overlap) ==
  /\ ck.pc = "idle"
  /\ ck' = [pc |-> "loop", content |-> content, chunkSize |-> chunkSize,
            overlap |-> overlap, sentences |-> Sentences(content), chunks |-> <<>>,
            currentChunk |-> <<>>]
  /\ UNCHANGED <<rd, rpc, dbAvailable, queryFails, ret, cs, wsVars, ragVars, patVars>>

\* the body of the for loop for the next sentence
ChunkSentence ==
  /\ ck.pc = "loop"
  /\ ck.sentences # <<>>
  /\ LET trimmedSentence == Trim(Head(ck.sentences))
     IN  IF /\ Len(ck.currentChunk \o <<Space>> \o trimmedSentence) > ck.chunkSize
            /\ Len(ck.currentChunk) > 0
           THEN ck' = [ck EXCEPT !.sentences = Tail(@),
                                 !.chunks = Append(@, Trim(ck.currentChunk)),
                                 !.currentChunk =
                                   LastWords(ck.currentChunk, ck.overlap \div 5)
                                     \o <<Space>> \o trimmedSentence]
           ELSE ck' = [ck EXCEPT !.sentences = Tail(@),
                                 !.currentChunk =
                                   @ \o (IF @ # <<>> THEN <<Space>> ELSE <<>>)
                                     \o trimmedSentence]
  /\ UNCHANGED <<rd, rpc, dbAvailable, queryFails, ret, cs, wsVars, ragVars, patVars>>

\* after the loop: if (currentChunk.trim().length > 0) chunks.push(...)
ChunkFinish ==
  /\ ck.pc = "loop"
  /\ ck.sentences = <<>>
  /\ ck' = [ck EXCEPT !.pc = "done",
                      !.chunks = IF Len(Trim(ck.currentChunk)) > 0
                                   THEN Append(@, Trim(ck.currentChunk)) ELSE @]
  /\ UNCHANGED <<rd, rpc, dbAvailable, queryFails, ret, cs, wsVars, ragVars, patVars>>

\* return chunks
ChunkReturn ==
  /\ ck.pc = "done"
  /\ ck' = IdleChunk
  /\ UNCHANGED <<rd, rpc, dbAvailable, queryFails, ret, cs, wsVars, ragVars, patVars>>

(***************************************************************************)
(* Embedder                                                                *)
(***************************************************************************)
\* length of the embedding vector
Dimensions == 768

RECURSIVE HashFrom(_, _, _, _)
\* the loop of simpleHash from character i on; the 32-bit hash is kept as two
\* 16-bit halves, hash = ((hash << 5) - hash + char) | 0 = (31 * hash + char) mod 2^32
HashFrom(str, i, hi, lo) ==
  IF i > Len(str) THEN <<hi, lo>>
  ELSE LET t == 31 * lo + str[i]
       IN  HashFrom(str, i + 1, (31 * hi + t \div 65536) % 65536, t % 65536)

\* Math.abs(hash) % 768 of the signed 32-bit hash (65536 = 85 * 768 + 256)
simpleHashSlot(str) ==
  LET h == HashFrom(str, 1, 0, 0)
  IN  IF h[1] < 32768
        THEN (h[1] * 256 + h[2]) % Dimensions
        ELSE ((65536 - h[1]) * 256 + 86 * Dimensions - h[2]) % Dimensions

\* text.toLowerCase().replace(/[^\w\s]/g, '').split(/\s+/).filter(t => t.length > 2)
Tokens(text) ==
  LET lower == [i \in 1..Len(text) |-> ToLower(text[i])]
      clean == SelectSeq(lower, LAMBDA c : IsWordChar(c) \/ c \in WhiteSpace)
  IN  SelectSeq(RunsFrom(clean, WhiteSpace, 1), LAMBDA t : Len(t) > 2)

\* The bag-of-hashed-tokens vector, by its non-zero slots, before the division
\* by its magnitude.
generateEmbedding(text) ==
  LET tokens == Tokens(text)
      slotOf == [i \in 1..Len(tokens) |-> simpleHashSlot(tokens[i])]
      slots == {slotOf[i] : i \in 1..Len(tokens)}
  IN  [s \in slots |-> Cardinality({i \in 1..Len(tokens) : slotOf[i] = s})]

RECURSIVE SumOver(_, _, _)
\* reduce((sum, v) => sum + ..., 0) over the slots S
SumOver(S, a, b) ==
  IF S = {} THEN 0
  ELSE LET s == CHOOSE x \in S : TRUE
       IN  a[s] * b[s] + SumOver(S \ {s}, a, b)

NormSq(a) == SumOver(DOMAIN a, a, a)

\* cosineSimilarity of the normalised vectors of a and b: the real number
\* num / sqrt(den2), and 0 when a magnitude is 0
cosineSimilarity(a, b) ==
  IF NormSq(a) * NormSq(b) = 0
    THEN [num |-> 0, den2 |-> 1]
    ELSE [num |-> SumOver(DOMAIN a \cap DOMAIN b, a, b), den2 |-> NormSq(a) * NormSq(b)]

\* b.similarity - a.similarity > 0, < 0, = 0 (numerators are never negative)
SimGreater(x, y) == x.num * x.num * y.den2 > y.num * y.num * x.den2

SimEqual(x, y) == x.num * x.num * y.den2 = y.num * y.num * x.den2

(***************************************************************************)
(* Workspace store                                                         *)
(***************************************************************************)
WsExists(id) == id \in 1..Len(workspaces)

\* select ... from workspaces where id = currentId; result[0]
WsRow(id) == workspaces[id]

IdleWalk == [kind |-> "none", pc |-> "idle", start |-> 0, currentId |-> 0,
             result |-> <<>>]

\* A write to the table does not wait for a resolver call in flight.  The call
\* it overtakes no longer reads one table, so it is followed no further.
Touch(w) == IdleWalk

\* Partial<InsertWorkspace>: any subset of the columns
WsUpdates ==
  [parentId : ParentIds] \cup [isArchived : BOOLEAN]
    \cup [parentId : ParentIds, isArchived : BOOLEAN]

ApplyWsUpdate(row, data) ==
  [parentId |-> IF "parentId" \in DOMAIN data THEN data.parentId ELSE row.parentId,
   isArchived |-> IF "isArchived" \in DOMAIN data THEN data.isArchived ELSE row.isArchived]

createWorkspace(parentId) ==
  /\ dbAvailable
  /\ Len(workspaces) < MaxWs
  /\ workspaces' = Append(workspaces, [parentId |-> parentId, isArchived |-> FALSE])
  /\ wk' = Touch(wk)
  /\ UNCHANGED <<envVars, ragVars, patVars>>

updateWorkspace(id, data) ==
  /\ dbAvailable
  /\ WsExists(id)
  /\ workspaces' = [workspaces EXCEPT ![id] = ApplyWsUpdate(@, data)]
  /\ workspaces' # workspaces
  /\ wk' = Touch(wk)
  /\ UNCHANGED <<envVars, ragVars, patVars>>

deleteWorkspace(id) ==
  /\ dbAvailable
  /\ WsExists(id)
  /\ ~workspaces[id].isArchived
  /\ workspaces' = [workspaces EXCEPT ![id].isArchived = TRUE]
  /\ wk' = Touch(wk)
  /\ UNCHANGED <<envVars, ragVars, patVars>>

(***************************************************************************)
(* Hierarchy resolvers, one database lookup per step                       *)
(***************************************************************************)
\* rag: getWorkspaceHierarchy(workspaceId), up to the loop
CallHierarchy(workspaceId) ==
  /\ wk.pc = "idle"
  /\ wk' = IF dbAvailable
             THEN [kind |-> "hierarchy", pc |-> "loop", start |-> workspaceId,
                   currentId |-> workspaceId, result |-> <<workspaceId>>]
             ELSE [kind |-> "hierarchy", pc |-> "done", start |-> workspaceId,
                   currentId |-> workspaceId, result |-> <<workspaceId>>]
  /\ UNCHANGED <<workspaces, envVars, ragVars, patVars>>

\* the loop body pushing the id it looked up instead of that row's parent
HierarchyIter_PushCurrent(w) ==
  IF WsExists(w.currentId) /\ WsRow(w.currentId).parentId # Null
    THEN [w EXCEPT !.result = Append(@, w.currentId),
                   !.currentId = WsRow(w.currentId).parentId]
    ELSE [w EXCEPT !.currentId = Null, !.pc = "done"]

\* the loop body trying a lookup that finds no row again
HierarchyIter_RetryMissing(w) ==
  IF WsExists(w.currentId) /\ WsRow(w.currentId).parentId # Null
    THEN [w EXCEPT !.result = Append(@, WsRow(w.currentId).parentId),
                   !.currentId = WsRow(w.currentId).parentId]
    ELSE IF WsExists(w.currentId)
           THEN [w EXCEPT !.currentId = Null, !.pc = "done"]
           ELSE w

\* one iteration of while (currentId) in getWorkspaceHierarchy
HierarchyIter(w) ==
  IF WsExists(w.currentId) /\ WsRow(w.currentId).parentId # Null
    THEN [w EXCEPT !.result = Append(@, WsRow(w.currentId).parentId),
                   !.currentId = WsRow(w.currentId).parentId]
    ELSE [w EXCEPT !.currentId = Null, !.pc = "done"]

HierarchyLoop ==
  /\ wk.kind = "hierarchy"
  /\ wk.pc = "loop"
  /\ Len(wk.result) < MaxWalk
  /\ wk' = HierarchyIter(wk)
  /\ UNCHANGED <<workspaces, envVars, ragVars, patVars>>

\* workspace store: getWorkspaceWithAncestors(id), up to the loop
CallAncestors(id) ==
  /\ dbAvailable
  /\ wk.pc = "idle"
  /\ wk' = [kind |-> "ancestors", pc |-> "loop", start |-> id, currentId |-> id,
            result |-> <<>>]
  /\ UNCHANGED <<workspaces, envVars, ragVars, patVars>>

\* one iteration of while (currentId) in getWorkspaceWithAncestors; the result
\* rows are kept by their id
AncestorsIter(w) ==
  IF WsExists(w.currentId)
    THEN [w EXCEPT !.result = Append(@, w.currentId),
                   !.currentId = WsRow(w.currentId).parentId,
                   !.pc = IF WsRow(w.currentId).parentId = Null THEN "done" ELSE "loop"]
    ELSE [w EXCEPT !.pc = "done"]

AncestorsLoop ==
  /\ wk.kind = "ancestors"
  /\ wk.pc = "loop"
  /\ Len(wk.result) < MaxWalk
  /\ wk' = AncestorsIter(wk)
  /\ UNCHANGED <<workspaces, envVars, ragVars, patVars>>

\* the caller takes the list
WalkReturn ==
  /\ wk.pc = "done"
  /\ wk' = IdleWalk
  /\ UNCHANGED <<workspaces, envVars, ragVars, patVars>>

(***************************************************************************)
(* Knowledge documents and chunks                                          *)
(***************************************************************************)
MaxDocs == 2

\* ids the auto-increment counter of knowledge_chunks may hand out
MaxChunkId == 3

DocIds == 1..MaxDocs

Word(w, k) == [i \in 1..(k * (Len(w) + 1) - 1) |->
                 IF i % (Len(w) + 1) = 0 THEN Space ELSE w[i % (Len(w) + 1)]]

\* "Save your work."
ContentShort == <<83, 97, 118, 101, 32, 121, 111, 117, 114, 32, 119, 111, 114, 107, 46>>

\* "save save ... save. voice voice ... voice." (60 and 50 words, 550 characters)
ContentLong ==
  Word(<<115, 97, 118, 101>>, 60) \o <<46, 32>>
    \o Word(<<118, 111, 105, 99, 101>>, 50) \o <<46>>

Contents == {ContentShort, ContentLong}

\* "Save often"
ChunkTextManual == <<83, 97, 118, 101, 32, 111, 102, 116, 101, 110>>

\* "save"
QuerySave == <<115, 97, 118, 101>>

\* "ux": no token longer than 2 characters, the zero vector
QueryUx == <<117, 120>>

Queries == {QuerySave, QueryUx}

\* chunkDocument(doc.content) with the default parameters, tabulated
ChunksMemo == [c \in Contents |-> chunkDocument(c, DefaultChunkSize, DefaultOverlap)]

ChunksOf(content) == ChunksMemo[content]

EmbeddedTexts ==
  UNION {{ChunksMemo[c][i] : i \in 1..Len(ChunksMemo[c])} : c \in Contents}
    \cup {ChunkTextManual} \cup Queries

\* generateEmbedding, tabulated
EmbeddingMemo == [t \in EmbeddedTexts |-> generateEmbedding(t)]

EmbeddingOf(text) == EmbeddingMemo[text]

\* a nullable JSON column: <<>> is NULL, <<v>> holds v
NoEmbedding == <<>>

Some(v) == <<v>>

\* a column value that is a string JSON.parse rejects (as a vector: no slot of
\* 0..Dimensions-1)
Unparsable == [i \in {-1} |-> 0]

Parses(v) == -1 \notin DOMAIN v

\* the column taken as it is, no JSON.parse and no catch
Parsed_Unchecked(column) == column

\* if (chunk.embedding) try { JSON.parse } catch { skip }: the embedding a
\* column yields, <<>> when it is NULL or the parse throws
Parsed(column) ==
  IF column = NoEmbedding THEN NoEmbedding
  ELSE IF Parses(column[1]) THEN column ELSE NoEmbedding

DocExists(id) == id \in 1..Len(documents)

NoSearch == [pc |-> "idle"]

IdleIndex == [pc |-> "idle"]

\* a write to the document or chunk table by another call, seen from the
\* indexDocument calls in flight
Interleave(f) ==
  [p \in DOMAIN f |-> IF f[p].pc = "idle" THEN f[p] ELSE [f[p] EXCEPT !.alone = FALSE]]

\* "Guide", the title the documents are created with
TitleGuide == <<71, 117, 105, 100, 101>>

\* "research", their category
CategoryOfGuide == <<114, 101, 115, 101, 97, 114, 99, 104>>

createKnowledgeDocument(workspaceId, content) ==
  /\ dbAvailable
  /\ Len(documents) < MaxDocs
  /\ documents' = Append(documents, [workspaceId |-> workspaceId, isActive |-> TRUE,
                                     content |-> content, chunkCount |-> 0,
                                     title |-> TitleGuide, category |-> CategoryOfGuide])
  /\ ix' = Interleave(ix)
  /\ sk' = NoSearch
  /\ UNCHANGED <<chunks, nextChunkId, vectorStore, envVars, wsVars, patVars>>

\* Partial<InsertKnowledgeDocument>: the content, or the active flag
DocUpdates == [content : Contents] \cup [isActive : BOOLEAN]

ApplyDocUpdate(row, data) ==
  [row EXCEPT !.content = IF "content" \in DOMAIN data THEN data.content ELSE @,
              !.title = IF "title" \in DOMAIN data THEN data.title ELSE @,
              !.isActive = IF "isActive" \in DOMAIN data THEN data.isActive ELSE @]

updateKnowledgeDocument(id, data) ==
  /\ dbAvailable
  /\ DocExists(id)
  /\ documents' = [documents EXCEPT ![id] = ApplyDocUpdate(@, data)]
  /\ documents' # documents
  /\ ix' = Interleave(ix)
  /\ sk' = NoSearch
  /\ UNCHANGED <<chunks, nextChunkId, vectorStore, envVars, wsVars, patVars>>

deleteKnowledgeDocument(id) ==
  /\ dbAvailable
  /\ DocExists(id)
  /\ documents[id].isActive
  /\ documents' = [documents EXCEPT ![id].isActive = FALSE]
  /\ ix' = Interleave(ix)
  /\ sk' = NoSearch
  /\ UNCHANGED <<chunks, nextChunkId, vectorStore, envVars, wsVars, patVars>>

\* rows the insert of createKnowledgeChunks adds, with consecutive ids
NewChunkRows(documentId, batch, firstId) ==
  {[id |-> firstId + i - 1, documentId |-> documentId,
    chunkIndex |-> batch[i].chunkIndex, content |-> batch[i].content,
    embedding |-> batch[i].embedding] : i \in 1..Len(batch)}

\* the chunk lists a caller passes to createKnowledgeChunks
ChunkBatches ==
  {<<[content |-> ChunkTextManual, chunkIndex |-> 0, embedding |-> e]>> :
     e \in {NoEmbedding, Some(EmbeddingOf(ChunkTextManual))}}

\* "Tone"
ChunkTextTone == <<84, 111, 110, 101>>

\* a chunk list about something else than the queries
ToneBatches ==
  {<<[content |-> ChunkTextTone, chunkIndex |-> 2,
      embedding |-> Some(generateEmbedding(ChunkTextTone))]>>}

\* chunk lists whose embedding is not a vector
BadBatches ==
  {<<[content |-> ChunkTextManual, chunkIndex |-> 1, embedding |-> Some(Unparsable)]>>}

createKnowledgeChunks(documentId, batch) ==
  /\ dbAvailable
  /\ Len(batch) > 0
  /\ nextChunkId + Len(batch) - 1 <= MaxChunkId
  /\ chunks' = chunks \cup NewChunkRows(documentId, batch, nextChunkId)
  /\ nextChunkId' = nextChunkId + Len(batch)
  /\ documents' = IF DocExists(documentId)
                     THEN [documents EXCEPT ![documentId].chunkCount = Len(batch)]
                     ELSE documents
  /\ ix' = Interleave(ix)
  /\ sk' = NoSearch
  /\ UNCHANGED <<vectorStore, envVars, wsVars, patVars>>

\* a delete that removes no row
ChunksWithout_Nothing(documentId) == chunks

\* delete from knowledge_chunks where documentId = ...
ChunksWithout(documentId) == {c \in chunks : c.documentId # documentId}

deleteChunksForDocument(documentId) ==
  /\ dbAvailable
  /\ chunks' = ChunksWithout(documentId)
  /\ chunks' # chunks
  /\ ix' = Interleave(ix)
  /\ sk' = NoSearch
  /\ UNCHANGED <<documents, nextChunkId, vectorStore, envVars, wsVars, patVars>>

(***************************************************************************)
(* rag: indexDocument, one database statement per step                     *)
(***************************************************************************)
\* callers that may run indexDocument at once
IndexerIds == {"first", "second"}

\* getDb, the select of the document, and the two throws
IndexStart(p, documentId) ==
  /\ ix[p].pc = "idle"
  /\ dbAvailable
  /\ DocExists(documentId)
  /\ ix' = [ix EXCEPT ![p] = [pc |-> "delete", documentId |-> documentId,
                              content |-> documents[documentId].content,
                              i |-> 0, alone |-> TRUE, discarded |-> {}]]
  /\ sk' = NoSearch
  /\ UNCHANGED <<documents, chunks, nextChunkId, vectorStore, envVars, wsVars, patVars>>

\* indexDocument of a document that is not there: the select finds no row,
\* throw new Error(`Document ${documentId} not found`) before any write
IndexMissing(p, documentId) ==
  /\ ix[p].pc = "idle"
  /\ dbAvailable
  /\ ~DocExists(documentId)
  /\ ret' = [op |-> "indexDocument", arg |-> documentId, store |-> "ok",
             outcome |-> "threw", empty |-> FALSE]
  /\ UNCHANGED <<rd, rpc, ck, dbAvailable, queryFails, cs, wsVars, ragVars, patVars>>

\* what the delete of the existing chunks leaves in the vector store
StoreAfterDelete(documentId) == vectorStore

\* delete existing chunks, then chunkDocument(doc.content)
IndexDelete(p) ==
  /\ ix[p].pc = "delete"
  /\ chunks' = ChunksWithout(ix[p].documentId)
  /\ vectorStore' = StoreAfterDelete(ix[p].documentId)
  /\ ix' = [q \in DOMAIN ix |->
              IF q = p
                THEN [ix[p] EXCEPT
                        !.pc = IF Len(ChunksOf(ix[p].content)) = 0 THEN "count" ELSE "insert",
                        !.discarded = {c.id : c \in chunks \ chunks'}]
                ELSE Interleave(ix)[q]]
  /\ sk' = NoSearch
  /\ UNCHANGED <<documents, nextChunkId, envVars, wsVars, patVars>>

\* Map.prototype.has, get and set on the vector store
StoreHas(store, id) == \E e \in store : e.id = id

StoreGet(store, id) == (CHOOSE e \in store : e.id = id).embedding

StoreSet(store, id, embedding) ==
  {e \in store : e.id # id} \cup {[id |-> id, embedding |-> embedding]}

StoreIds(store) == {e.id : e \in store}

\* the row inserted without its embedding
IndexedRow_Unembedded(documentId, i, chunkText, id) ==
  [id |-> id, documentId |-> documentId, chunkIndex |-> i, content |-> chunkText,
   embedding |-> NoEmbedding]

\* the row one turn of the for loop inserts
IndexedRow(documentId, i, chunkText, id) ==
  [id |-> id, documentId |-> documentId, chunkIndex |-> i, content |-> chunkText,
   embedding |-> Some(EmbeddingOf(chunkText))]

\* one turn of the for loop: the insert, then vectorStore.set(insertId, embedding)
IndexInsert(p) ==
  /\ ix[p].pc = "insert"
  /\ nextChunkId <= MaxChunkId
  /\ LET segs == ChunksOf(ix[p].content)
         row == IndexedRow(ix[p].documentId, ix[p].i, segs[ix[p].i + 1], nextChunkId)
     IN  /\ chunks' = chunks \cup {row}
         /\ vectorStore' = StoreSet(vectorStore, row.id, row.embedding[1])
         /\ ix' = [q \in DOMAIN ix |->
                     IF q = p
                       THEN [ix[p] EXCEPT !.i = @ + 1,
                                          !.pc = IF ix[p].i + 1 = Len(segs)
                                                   THEN "count" ELSE "insert"]
                       ELSE Interleave(ix)[q]]
  /\ nextChunkId' = nextChunkId + 1
  /\ sk' = NoSearch
  /\ UNCHANGED <<documents, envVars, wsVars, patVars>>

\* update document chunk count
IndexUpdateCount(p) ==
  /\ ix[p].pc = "count"
  /\ documents' = [documents EXCEPT
                     ![ix[p].documentId].chunkCount = Len(ChunksOf(ix[p].content))]
  /\ ix' = [q \in DOMAIN ix |->
              IF q = p THEN [ix[p] EXCEPT !.pc = "done"] ELSE Interleave(ix)[q]]
  /\ sk' = NoSearch
  /\ UNCHANGED <<chunks, nextChunkId, vectorStore, envVars, wsVars, patVars>>

\* the promise of indexDocument resolves
IndexReturn(p) ==
  /\ ix[p].pc = "done"
  /\ ix' = [ix EXCEPT ![p] = IdleIndex]
  /\ sk' = NoSearch
  /\ UNCHANGED <<documents, chunks, nextChunkId, vectorStore, envVars, wsVars, patVars>>

(***************************************************************************)
(* rag: loadEmbeddings and searchKnowledge                                 *)
(***************************************************************************)
\* the for loop of loadEmbeddings over the rows whose embedding is not NULL
LoadedStore ==
  LET loaded == {c \in chunks : Parsed(c.embedding) # NoEmbedding}
  IN  {e \in vectorStore : e.id \notin {c.id : c \in loaded}}
        \cup {[id |-> c.id, embedding |-> Parsed(c.embedding)[1]] : c \in loaded}

loadEmbeddings ==
  /\ dbAvailable
  /\ vectorStore' = LoadedStore
  /\ vectorStore' # vectorStore
  /\ sk' = NoSearch
  /\ UNCHANGED <<documents, chunks, nextChunkId, ix, envVars, wsVars, patVars>>

NoIndexing == \A p \in IndexerIds : ix[p].pc = "idle"

\* the process starts again: the module is loaded with a new, empty Map
Restart ==
  /\ NoIndexing
  /\ vectorStore # {}
  /\ vectorStore' = {}
  /\ sk' = NoSearch
  /\ UNCHANGED <<documents, chunks, nextChunkId, ix, envVars, wsVars, patVars>>

RECURSIVE RunHierarchy(_)
\* the while loop of getWorkspaceHierarchy, run to its end
RunHierarchy(w) ==
  IF w.pc = "done" \/ Len(w.result) >= MaxWalk THEN w ELSE RunHierarchy(HierarchyIter(w))

getWorkspaceHierarchy(workspaceId) ==
  RunHierarchy([kind |-> "hierarchy", pc |-> "loop", start |-> workspaceId,
                currentId |-> workspaceId, result |-> <<workspaceId>>])

Range(s) == {s[i] : i \in 1..Len(s)}

\* the select without its workspace condition
CandidateChunks_AnyWorkspace(workspaceIds) ==
  {c \in chunks : DocExists(c.documentId) /\ documents[c.documentId].isActive}

\* the select of searchKnowledge: chunks joined to the active documents of workspaceIds
CandidateChunks(workspaceIds) ==
  {c \in chunks : /\ DocExists(c.documentId)
                  /\ documents[c.documentId].workspaceId \in workspaceIds
                  /\ documents[c.documentId].isActive}

\* the orders a select without ORDER BY may return the rows S in
RowOrders(S) ==
  {f \in [1..Cardinality(S) -> S] : \A i, j \in 1..Cardinality(S) : i # j => f[i] # f[j]}

\* the loop reading memory only, a chunk that is not there being skipped
FoundEmbedding_MemoryOnly(store, chunk) ==
  IF StoreHas(store, chunk.id) THEN Some(StoreGet(store, chunk.id)) ELSE NoEmbedding

\* the embedding the loop of searchKnowledge finds for a chunk: memory first,
\* then the row; <<>> when there is none
FoundEmbedding(store, chunk) ==
  IF StoreHas(store, chunk.id) THEN Some(StoreGet(store, chunk.id))
  ELSE Parsed(chunk.embedding)

RECURSIVE ScoreFrom(_, _, _, _)
\* the for loop of searchKnowledge over rows[i..]
ScoreFrom(rows, i, store, queryEmbedding) ==
  IF i > Len(rows) THEN <<>>
  ELSE LET e == FoundEmbedding(store, rows[i])
       IN  IF e = NoEmbedding
             THEN ScoreFrom(rows, i + 1, store, queryEmbedding)
             ELSE <<[chunkId |-> rows[i].id, content |-> rows[i].content,
                     documentId |-> rows[i].documentId,
                     similarity |-> cosineSimilarity(queryEmbedding, e[1])]>>
                    \o ScoreFrom(rows, i + 1, store, queryEmbedding)

\* the vector store after the loop: every cache miss with a stored embedding is set
StoreAfterSearch(store, rows) ==
  store \cup {[id |-> c.id, embedding |-> Parsed(c.embedding)[1]] :
                c \in {r \in Range(rows) : /\ ~StoreHas(store, r.id)
                                            /\ Parsed(r.embedding) # NoEmbedding}}

RECURSIVE SortBySimilarity(_)
\* results.sort((a, b) => b.similarity - a.similarity): stable, descending
SortBySimilarity(results) ==
  IF results = <<>> THEN <<>>
  ELSE LET n == Len(results)
           x == results[n]
           front == SortBySimilarity(SubSeq(results, 1, n - 1))
           k == Cardinality({j \in 1..Len(front) : ~SimGreater(x.similarity, front[j].similarity)})
       IN  SubSeq(front, 1, k) \o <<x>> \o SubSeq(front, k + 1, Len(front))

\* results.slice(0, limit) for limit >= 0
Slice(results, limit) == SubSeq(results, 1, IF limit < Len(results) THEN limit ELSE Len(results))

\* the search applying a relevance floor of its own before the slice
TopResults_DropLow(query, rows, limit, store) ==
  Slice(SelectSeq(SortBySimilarity(ScoreFrom(rows, 1, store, EmbeddingOf(query))),
                  LAMBDA r : r.similarity.num > 0), limit)

\* topResults of searchKnowledge when the select returns rows and memory holds store
TopResults(query, rows, limit, store) ==
  Slice(SortBySimilarity(ScoreFrom(rows, 1, store, EmbeddingOf(query))), limit)

DefaultLimit == 5

Limits == {0, 1, DefaultLimit}

searchKnowledge(query, workspaceId, limit) ==
  /\ IF dbAvailable
       THEN \E rows \in RowOrders(CandidateChunks(Range(getWorkspaceHierarchy(workspaceId).result))) :
              /\ getWorkspaceHierarchy(workspaceId).pc = "done"
              /\ sk' = [pc |-> "done", query |-> query, workspaceId |-> workspaceId,
                        limit |-> limit, rows |-> rows,
                        backfilled |-> StoreIds(StoreAfterSearch(vectorStore, rows)) \ StoreIds(vectorStore),
                        results |-> TopResults(query, rows, limit, vectorStore)]
              /\ vectorStore' = StoreAfterSearch(vectorStore, rows)
       ELSE /\ sk' = [pc |-> "done", query |-> query, workspaceId |-> workspaceId,
                      limit |-> limit, rows |-> <<>>, backfilled |-> {}, results |-> <<>>]
            /\ vectorStore' = vectorStore
  /\ UNCHANGED <<documents, chunks, nextChunkId, ix, envVars, wsVars, patVars>>

\* the caller takes the passages searchKnowledge returned
SearchReturn ==
  /\ sk.pc = "done"
  /\ sk' = NoSearch
  /\ UNCHANGED <<documents, chunks, nextChunkId, vectorStore, ix, envVars, wsVars, patVars>>

(***************************************************************************)
(* Pattern store                                                           *)
(***************************************************************************)
\* ids the auto-increment counter of copy_patterns may hand out
MaxPatternId == 2

\* usageCount is counted up to here
MaxUsage == 1

\* createdAt, in seconds from the first insert
MaxTime == 1

UserIds == {1, 2}

ComponentTypes == {"button", "error"}

\* "Save"
TextSave == <<83, 97, 118, 101>>

\* "Saved"
TextSaved == <<83, 97, 118, 101, 100>>

PatternTexts == {TextSave, TextSaved}

\* "save" and "ed"
PatternQueries == {<<115, 97, 118, 101>>, <<101, 100>>}

\* an optional argument that is left out
Undefined == <<>>

NoQuery == [op |-> "none"]

PatternExists(id) == \E r \in patterns : r.id = id

\* NULL of the timestamp column lastUsedAt
Never == -1

\* the time of a statement: createdAt defaults to it, and it never runs backwards
InsertTimes ==
  {t \in 0..MaxTime : \A r \in patterns : r.createdAt <= t /\ r.lastUsedAt <= t}

\* the row an insert of data makes: isApproved defaults to true, usageCount to 0
PatternRow(id, data, t) ==
  [id |-> id, userId |-> data.userId, componentType |-> data.componentType,
   text |-> data.text,
   isApproved |-> IF "isApproved" \in DOMAIN data THEN data.isApproved ELSE TRUE,
   usageCount |-> 0, lastUsedAt |-> Never, createdAt |-> t]

\* Omit<InsertCopyPattern, "id" | "createdAt" | "updatedAt">
NewPatterns ==
  [userId : UserIds, componentType : ComponentTypes, text : PatternTexts]
    \cup [userId : UserIds, componentType : ComponentTypes, text : PatternTexts,
          isApproved : {FALSE}]

createPattern(data) ==
  /\ dbAvailable
  /\ nextPatternId <= MaxPatternId
  /\ \E t \in InsertTimes : patterns' = patterns \cup {PatternRow(nextPatternId, data, t)}
  /\ nextPatternId' = nextPatternId + 1
  /\ pq' = NoQuery
  /\ UNCHANGED <<usageVars, envVars, wsVars, ragVars>>

\* the lists a caller imports: the same copy for both users, or for one
ImportBatches ==
  {<<[userId |-> u, componentType |-> "button", text |-> TextSave],
     [userId |-> v, componentType |-> "button", text |-> TextSave]>> : u, v \in UserIds}

\* one insert of all the rows, ids from insertId upwards
importPatterns(batch) ==
  /\ Len(batch) > 0
  /\ dbAvailable
  /\ nextPatternId + Len(batch) - 1 <= MaxPatternId
  /\ \E t \in InsertTimes :
       patterns' = patterns \cup
                     {PatternRow(nextPatternId + i - 1, batch[i], t) : i \in 1..Len(batch)}
  /\ nextPatternId' = nextPatternId + Len(batch)
  /\ pq' = NoQuery
  /\ UNCHANGED <<usageVars, envVars, wsVars, ragVars>>

\* Partial<Omit<InsertCopyPattern, "id" | "userId" | "createdAt">>
PatternUpdates ==
  [text : PatternTexts] \cup [componentType : ComponentTypes] \cup [isApproved : BOOLEAN]

ApplyPatternUpdate(row, data) ==
  [row EXCEPT !.text = IF "text" \in DOMAIN data THEN data.text ELSE @,
              !.componentType = IF "componentType" \in DOMAIN data
                                  THEN data.componentType ELSE @,
              !.isApproved = IF "isApproved" \in DOMAIN data THEN data.isApproved ELSE @]

updatePattern(id, data) ==
  /\ dbAvailable
  /\ patterns' = {IF r.id = id THEN ApplyPatternUpdate(r, data) ELSE r : r \in patterns}
  /\ patterns' # patterns
  /\ pq' = NoQuery
  /\ UNCHANGED <<nextPatternId, usageVars, envVars, wsVars, ragVars>>

deletePattern(id) ==
  /\ dbAvailable
  /\ patterns' = {r \in patterns : r.id # id}
  /\ patterns' # patterns
  /\ pq' = NoQuery
  /\ UNCHANGED <<nextPatternId, usageVars, envVars, wsVars, ragVars>>

\* the row after SET usageCount = usageCount + 1, lastUsedAt = at
UsedRow(row, at) == [row EXCEPT !.usageCount = @ + 1, !.lastUsedAt = at]

\* a call of incrementUsage that nothing interleaves with
incrementUsage(id) ==
  /\ dbAvailable
  /\ \E r \in patterns : r.id = id /\ r.usageCount < MaxUsage
  /\ \E t \in InsertTimes :
       patterns' = {IF r.id = id THEN UsedRow(r, t) ELSE r : r \in patterns}
  /\ pq' = NoQuery
  /\ UNCHANGED <<nextPatternId, usageVars, envVars, wsVars, ragVars>>

(***************************************************************************)
(* Pattern store: the three queries                                        *)
(***************************************************************************)
\* text LIKE '%query%' for a query without wildcards, letters compared without case
Like(text, query) ==
  \E i \in 0..(Len(text) - Len(query)) :
    \A k \in 1..Len(query) : ToLower(text[i + k]) = ToLower(query[k])

\* if (opts.componentType) conditions.push(eq(componentType, opts.componentType))
TypeMatches(row, componentType) ==
  componentType = Undefined \/ row.componentType = componentType[1]

\* a select without its ORDER BY
ByUsageThenCreated_Unordered(S) == RowOrders(S)

\* the orders ORDER BY usageCount DESC, createdAt DESC may return the rows S in
ByUsageThenCreated(S) ==
  {f \in RowOrders(S) :
     \A i, j \in 1..Cardinality(S) :
       i < j => \/ f[i].usageCount > f[j].usageCount
                \/ f[i].usageCount = f[j].usageCount /\ f[i].createdAt >= f[j].createdAt}

\* the orders ORDER BY usageCount DESC may return the rows S in
ByUsage(S) ==
  {f \in RowOrders(S) :
     \A i, j \in 1..Cardinality(S) : i < j => f[i].usageCount >= f[j].usageCount}

\* LIMIT limit OFFSET offset
LimitOffset(rows, limit, offset) ==
  SubSeq(rows, offset + 1, IF offset + limit < Len(rows) THEN offset + limit ELSE Len(rows))

ListMatches(userId, componentType) ==
  {r \in patterns : r.userId = userId /\ TypeMatches(r, componentType)}

listPatterns(userId, componentType, limit, offset) ==
  /\ IF dbAvailable
       THEN \E rows \in ByUsageThenCreated(ListMatches(userId, componentType)) :
              pq' = [op |-> "list", userId |-> userId, componentType |-> componentType,
                     query |-> Undefined, limit |-> limit, offset |-> offset,
                     results |-> LimitOffset(rows, limit, offset)]
       ELSE pq' = [op |-> "list", userId |-> userId, componentType |-> componentType,
                   query |-> Undefined, limit |-> limit, offset |-> offset,
                   results |-> <<>>]
  /\ UNCHANGED <<patterns, nextPatternId, usageVars, envVars, wsVars, ragVars>>

SearchMatches(userId, query, componentType) ==
  {r \in patterns : /\ r.userId = userId
                    /\ Like(r.text, query)
                    /\ TypeMatches(r, componentType)}

searchPatterns(userId, query, componentType, limit) ==
  /\ IF dbAvailable
       THEN \E rows \in ByUsage(SearchMatches(userId, query, componentType)) :
              pq' = [op |-> "search", userId |-> userId, componentType |-> componentType,
                     query |-> Some(query), limit |-> limit, offset |-> 0,
                     results |-> LimitOffset(rows, limit, 0)]
       ELSE pq' = [op |-> "search", userId |-> userId, componentType |-> componentType,
                   query |-> Some(query), limit |-> limit, offset |-> 0,
                   results |-> <<>>]
  /\ UNCHANGED <<patterns, nextPatternId, usageVars, envVars, wsVars, ragVars>>

\* the select with its userId condition left out
SimilarMatches_AnyUser(userId, componentType) ==
  {r \in patterns : r.componentType = componentType /\ r.isApproved}

SimilarMatches(userId, componentType) ==
  {r \in patterns : /\ r.userId = userId
                    /\ r.componentType = componentType
                    /\ r.isApproved}

DefaultFindLimit == 10

\* limit is optional: opts.limit ?? 10
findSimilarPatterns(userId, componentType, limit) ==
  /\ IF dbAvailable
       THEN \E rows \in ByUsageThenCreated(SimilarMatches(userId, componentType)) :
              pq' = [op |-> "find", userId |-> userId, componentType |-> Some(componentType),
                     query |-> Undefined, limit |-> limit, offset |-> 0,
                     results |-> LimitOffset(rows, IF limit = Undefined
                                                     THEN DefaultFindLimit ELSE limit[1], 0)]
       ELSE pq' = [op |-> "find", userId |-> userId, componentType |-> Some(componentType),
                   query |-> Undefined, limit |-> limit, offset |-> 0, results |-> <<>>]
  /\ UNCHANGED <<patterns, nextPatternId, usageVars, envVars, wsVars, ragVars>>

(***************************************************************************)
(* Pattern store: incrementUsage, one await per step                       *)
(***************************************************************************)
\* incrementUsage calls a caller makes per pattern
MaxCalls == 2

\* callers that may run incrementUsage at once
UsageCallers == {"first", "second"}

IdleUse == [pc |-> "idle"]

\* getDb, then new Date() as the update statement is built
UseStart(p, id) ==
  /\ iu[p].pc = "idle"
  /\ id \in DOMAIN usageLog
  /\ usageLog[id].called < MaxCalls
  /\ iu' = [iu EXCEPT ![p] = IF dbAvailable
                               THEN [pc |-> "update", id |-> id, at |-> now]
                               ELSE [pc |-> "done", id |-> id, at |-> now]]
  /\ usageLog' = [usageLog EXCEPT ![id] = [called |-> @.called + 1, recent |-> now]]
  /\ UNCHANGED <<patterns, nextPatternId, pq, now, envVars, wsVars, ragVars>>

\* the database runs the update statement
UseApply(p) ==
  /\ iu[p].pc = "update"
  /\ patterns' = {IF r.id = iu[p].id THEN UsedRow(r, iu[p].at) ELSE r : r \in patterns}
  /\ iu' = [iu EXCEPT ![p].pc = "done"]
  /\ UNCHANGED <<nextPatternId, pq, now, usageLog, envVars, wsVars, ragVars>>

\* the promise of incrementUsage resolves
UseReturn(p) ==
  /\ iu[p].pc = "done"
  /\ iu' = [iu EXCEPT ![p] = IdleUse]
  /\ UNCHANGED <<patterns, nextPatternId, pq, now, usageLog, envVars, wsVars, ragVars>>

\* a second passes
Tick ==
  /\ now < MaxTime
  /\ now' = now + 1
  /\ UNCHANGED <<patterns, nextPatternId, pq, iu, usageLog, envVars, wsVars, ragVars>>

\* the caller takes the rows a pattern query returned
QueryReturn ==
  /\ pq.op # "none"
  /\ pq' = NoQuery
  /\ UNCHANGED <<patterns, nextPatternId, usageVars, envVars, wsVars, ragVars>>

(***************************************************************************)
(* Generation request chat.send, one await per step; the conversation      *)
(* store, the generation quota and the LLM are the environment             *)
(***************************************************************************)
IdleChat == [pc |-> "idle"]

\* usageCount and lastUsedAt of every pattern
Counters(rows) ==
  {[id |-> r.id, usageCount |-> r.usageCount, lastUsedAt |-> r.lastUsedAt] : r \in rows}

\* getPatternsAsContext: "" without patterns, else the header and a numbered
\* line per pattern
PatternsAsContext(rows) ==
  IF Len(rows) = 0
    THEN <<>>
    ELSE <<[kind |-> "header"]>> \o
         [i \in 1..Len(rows) |-> [kind |-> "line", n |-> i, id |-> rows[i].id]]

ContextLimit == 5

\* chat.send writes the patterns it puts into the prompt with their counters
\* raised
PatternsAfterContext_Used(rows, context, at) ==
  {IF \E i \in 1..Len(context) : context[i].kind = "line" /\ context[i].id = r.id
     THEN UsedRow(r, at) ELSE r : r \in rows}

\* chat.send only reads the patterns it puts into the prompt
PatternsAfterContext(rows, context, at) == rows

\* the system prompt chat.send builds: the instructions and, when
\* patternContext is not "", the section "## Product Copy Patterns" with it;
\* nothing else is interpolated, the RAG service is not asked
SystemPrompt(patternContext) ==
  <<[kind |-> "instructions"]>> \o
    (IF patternContext # <<>> THEN <<[kind |-> "patterns", text |-> patternContext]>>
                               ELSE <<>>)

\* checkUsageLimit; detectedType is the type of the first keyword in the message
ChatStart(userId, detectedType) ==
  /\ cs.pc = "idle"
  /\ \E allowed \in BOOLEAN :
       cs' = [pc |-> IF allowed THEN "context" ELSE "failed",
              userId |-> userId, detectedType |-> detectedType,
              patternContext |-> <<>>, llm |-> "none",
              before |-> Counters(patterns)]
  /\ UNCHANGED <<rd, rpc, ck, dbAvailable, queryFails, ret, wsVars, ragVars, patVars>>

\* if (detectedType) patternContext = await getPatternsAsContext({..., limit: 5})
ChatContext ==
  /\ cs.pc = "context"
  /\ IF cs.detectedType # Undefined /\ dbAvailable
       THEN \E rows \in ByUsageThenCreated(SimilarMatches(cs.userId, cs.detectedType[1])) :
              LET context == PatternsAsContext(LimitOffset(rows, ContextLimit, 0))
              IN  /\ cs' = [cs EXCEPT !.pc = "conversation", !.patternContext = context]
                  /\ patterns' = PatternsAfterContext(patterns, context, now)
       ELSE /\ cs' = [cs EXCEPT !.pc = "conversation"]
            /\ UNCHANGED patterns
  /\ UNCHANGED <<rd, rpc, ck, dbAvailable, queryFails, ret, nextPatternId, pq, usageVars, wsVars, ragVars>>

\* the conversation is created or loaded (NOT_FOUND when it is not the
\* user's), the user message is saved
ChatConversation ==
  /\ cs.pc = "conversation"
  /\ \E found \in BOOLEAN : cs' = [cs EXCEPT !.pc = IF found THEN "llm" ELSE "failed"]
  /\ UNCHANGED <<rd, rpc, ck, dbAvailable, queryFails, ret, wsVars, ragVars, patVars>>

\* await invokeLLM({ messages }): it resolves, or rejects (error, timeout)
ChatLLM ==
  /\ cs.pc = "llm"
  /\ \E ok \in BOOLEAN :
       cs' = [cs EXCEPT !.pc = IF ok THEN "reply" ELSE "failed",
                        !.llm = IF ok THEN "ok" ELSE "failed"]
  /\ UNCHANGED <<rd, rpc, ck, dbAvailable, queryFails, ret, wsVars, ragVars, patVars>>

\* the assistant message is saved, the user's generations are counted and the
\* response returned; or the error of an earlier step reaches the client
ChatReturn ==
  /\ cs.pc \in {"reply", "failed"}
  /\ cs' = IdleChat
  /\ UNCHANGED <<rd, rpc, ck, dbAvailable, queryFails, ret, wsVars, ragVars, patVars>>

(***************************************************************************)
(* Context assembly: getGenerationContext and getPatternsAsContext         *)
(***************************************************************************)
\* searchKnowledge(query, workspaceId, 3)
GenerationLimit == 3

\* the floor left out: every passage found is put into the text
AboveFloor_Any(similarity) == TRUE

\* result.similarity > 0.1, for the real number num / sqrt(den2)
AboveFloor(similarity) ==
  similarity.num > 0 /\ 100 * similarity.num * similarity.num > similarity.den2

ToUpper(c) == IF c \in 97..122 THEN c - 32 ELSE c

\* "Unknown"
TitleUnknown == <<85, 110, 107, 110, 111, 119, 110>>

\* "other"
CategoryOther == <<111, 116, 104, 101, 114>>

\* the metadata join of searchKnowledge and the label of getGenerationContext:
\* [${(category || 'other').toUpperCase()}: ${title || 'Unknown'}]
DocumentLabel(documentId) ==
  LET found == DocExists(documentId)
      title == IF found /\ documents[documentId].title # <<>>
                 THEN documents[documentId].title ELSE TitleUnknown
      category == IF found /\ documents[documentId].category # <<>>
                    THEN documents[documentId].category ELSE CategoryOther
  IN  [type |-> [i \in 1..Len(category) |-> ToUpper(category[i])], title |-> title]

\* the text getGenerationContext makes of the passages found: "" when there is
\* none, else the header and, for each passage above the floor, its label and
\* its content
GenerationContext(results) ==
  IF Len(results) = 0
    THEN <<>>
    ELSE LET kept == SelectSeq(results, LAMBDA r : AboveFloor(r.similarity))
         IN  <<[kind |-> "header"]>> \o
             [i \in 1..Len(kept) |->
                [kind |-> "line", n |-> i, id |-> kept[i].chunkId,
                 label |-> DocumentLabel(kept[i].documentId),
                 content |-> kept[i].content]]

\* getGenerationContext: the search, held in sk; it returns
\* GenerationContext(sk.results)
getGenerationContext(query, workspaceId) ==
  searchKnowledge(query, workspaceId, GenerationLimit)

\* getPatternsAsContext: the search, held in pq; it returns
\* PatternsAsContext(pq.results)
getPatternsAsContext(userId, componentType) ==
  findSimilarPatterns(userId, componentType, Some(ContextLimit))

(***************************************************************************)
(* Calls that meet a store out of service                                  *)
(***************************************************************************)
\* arg: the workspace id of a call of the workspace store
NoCall == [op |-> "none", arg |-> Null, store |-> "ok", outcome |-> "none", empty |-> TRUE]

\* what a call meets: getDb gives no handle (DATABASE_URL unset), or a handle
\* whose statements the database rejects
StoreState ==
  IF ~dbAvailable THEN "nohandle" ELSE IF queryFails THEN "failing" ELSE "ok"

Returned(op, empty) ==
  [op |-> op, arg |-> Null, store |-> StoreState, outcome |-> "returned", empty |-> empty]

Threw(op) ==
  [op |-> op, arg |-> Null, store |-> StoreState, outcome |-> "threw", empty |-> FALSE]

\* the operations that read the store
ReadOps ==
  {"searchKnowledge", "getGenerationContext", "findSimilarPatterns", "searchPatterns",
   "listPatterns", "getPatternsAsContext"}

\* the operations that write it; importPatterns is called with a batch that is
\* not empty
WriteOps ==
  {"createPattern", "importPatterns", "updatePattern", "deletePattern", "indexDocument"}

StoreOps == ReadOps \cup WriteOps

\* the branch `if (!db)` of each operation
WithoutHandle(op) ==
  CASE op \in {"createPattern", "indexDocument"} ->
         Threw(op)            \* throw new Error("Database not available")
    [] op \in {"updatePattern", "deletePattern"} ->
         Returned(op, TRUE)   \* return;
    [] op = "importPatterns" ->
         Returned(op, TRUE)   \* return [];
    [] op \in {"listPatterns", "searchPatterns", "findSimilarPatterns",
               "searchKnowledge"} ->
         Returned(op, TRUE)   \* return [];
    [] op \in {"getPatternsAsContext", "getGenerationContext"} ->
         Returned(op, TRUE)   \* the search inside returns [], the context is ""

\* One call of a store operation while the store is out of service.  With a
\* handle, the first statement of the operation is rejected; every statement
\* is awaited outside any try block (the only try blocks of rag enclose
\* JSON.parse, patternDb has none), so its rejection is the rejection of the
\* call, and of the context builder around the search.
UnavailableCall(op) ==
  /\ StoreState # "ok"
  /\ ret' = IF dbAvailable THEN Threw(op) ELSE WithoutHandle(op)
  /\ UNCHANGED <<rd, rpc, ck, dbAvailable, queryFails, cs, wsVars, ragVars, patVars>>

\* the database rejects the update statement of incrementUsage: nothing
\* catches it, the promise of incrementUsage rejects
UseRejected(p) ==
  /\ iu[p].pc = "update"
  /\ queryFails
  /\ iu' = [iu EXCEPT ![p] = IdleUse]
  /\ ret' = Threw("incrementUsage")
  /\ UNCHANGED <<rd, rpc, ck, dbAvailable, queryFails, cs, patterns, nextPatternId, pq, now, usageLog,
                 wsVars, ragVars>>

\* the database goes out of service, and comes back
Outage ==
  /\ ~queryFails
  /\ queryFails' = TRUE
  /\ UNCHANGED <<rd, rpc, ck, dbAvailable, ret, cs, wsVars, ragVars, patVars>>

Recover ==
  /\ queryFails
  /\ queryFails' = FALSE
  /\ UNCHANGED <<rd, rpc, ck, dbAvailable, ret, cs, wsVars, ragVars, patVars>>

(***************************************************************************)
(* Workspace store: the searches over a workspace and its ancestors        *)
(***************************************************************************)
RECURSIVE RunAncestors(_)
\* the while loop of getWorkspaceWithAncestors, run to its end
RunAncestors(w) ==
  IF w.pc = "done" \/ Len(w.result) >= MaxWalk THEN w ELSE RunAncestors(AncestorsIter(w))

getWorkspaceWithAncestors(id) ==
  RunAncestors([kind |-> "ancestors", pc |-> "loop", start |-> id, currentId |-> id,
                result |-> <<>>])

\* sql`workspaceId IN (${sql.join(ids, sql`, `)})`: with no id the statement
\* reads IN (), a syntax error to MySQL, and the query rejects
InListRejected(ids) == ids = <<>>

\* the active documents attached to one of the workspaces ids
ActiveDocsIn(ids) ==
  {d \in 1..Len(documents) : documents[d].workspaceId \in Range(ids) /\ documents[d].isActive}

getInheritedKnowledgeDocuments(workspaceId) ==
  /\ dbAvailable
  /\ LET op == "getInheritedKnowledgeDocuments"
         ancestorIds == getWorkspaceWithAncestors(workspaceId).result
     IN  ret' = [(IF InListRejected(ancestorIds)
                    THEN Threw(op)
                    ELSE Returned(op, ActiveDocsIn(ancestorIds) = {}))
                 EXCEPT !.arg = workspaceId]
  /\ UNCHANGED <<rd, rpc, ck, dbAvailable, queryFails, cs, wsVars, ragVars, patVars>>

\* the text search: the chunks of the documents in scope whose content is
\* LIKE %query%; limit is 10, above the number of chunks here
searchKnowledgeChunks(workspaceId, query) ==
  /\ dbAvailable
  /\ LET op == "searchKnowledgeChunks"
         ancestorIds == getWorkspaceWithAncestors(workspaceId).result
         docIds == ActiveDocsIn(ancestorIds)
         found == {c \in chunks : c.documentId \in docIds /\ Like(c.content, query)}
     IN  ret' = [(IF InListRejected(ancestorIds)
                    THEN Threw(op)
                    ELSE Returned(op, docIds = {} \/ found = {}))
                 EXCEPT !.arg = workspaceId]
  /\ UNCHANGED <<rd, rpc, ck, dbAvailable, queryFails, cs, wsVars, ragVars, patVars>>

vars == <<envVars, wsVars, ragVars, patVars>>

InitWs ==
  /\ dbAvailable = TRUE
  /\ queryFails = FALSE
  /\ ret = NoCall
  /\ cs = IdleChat
  /\ ck = IdleChunk
  /\ rpc = IdleRpc
  /\ rd = IdleReaders
  /\ workspaces = <<>>
  /\ wk = IdleWalk
  /\ documents = <<>>
  /\ chunks = {}
  /\ nextChunkId = 1
  /\ vectorStore = {}
  /\ ix = [p \in IndexerIds |-> IdleIndex]
  /\ sk = NoSearch
  /\ patterns = {}
  /\ nextPatternId = 1
  /\ pq = NoQuery
  /\ iu = [p \in UsageCallers |-> IdleUse]
  /\ now = 0
  /\ usageLog = <<>>

NextWs ==
  \/ \E p \in ParentIds : createWorkspace(p)
  \/ \E id \in WsIds, data \in WsUpdates : updateWorkspace(id, data)
  \/ \E id \in WsIds : deleteWorkspace(id)
  \/ \E w \in WsIds : CallHierarchy(w)
  \/ HierarchyLoop
  \/ \E w \in WsIds : CallAncestors(w)
  \/ AncestorsLoop
  \/ WalkReturn

SpecWs == InitWs /\ [][NextWs]_vars

(***************************************************************************)
(* Knowledge base: documents, indexing, the vector store and search over   *)
(* the seeded workspace tree                                               *)
(***************************************************************************)
\* scripts/seed-workspaces: Meta, Reality Labs (in Meta), Horizon (in Reality
\* Labs), Instagram (in Meta)
SeedWorkspaces ==
  <<[parentId |-> Null, isArchived |-> FALSE], [parentId |-> 1, isArchived |-> FALSE],
    [parentId |-> 2, isArchived |-> FALSE], [parentId |-> 1, isArchived |-> FALSE]>>

\* workspaces a document is attached to: Meta, Instagram
DocWorkspaces == {1, 4}

\* workspaces searched from: Meta, Horizon, Instagram and one that does not exist
SearchWorkspaces == {1, 3, 4, Len(SeedWorkspaces) + 1}

InitRag ==
  /\ dbAvailable = TRUE
  /\ queryFails = FALSE
  /\ ret = NoCall
  /\ cs = IdleChat
  /\ ck = IdleChunk
  /\ rpc = IdleRpc
  /\ rd = IdleReaders
  /\ workspaces = SeedWorkspaces
  /\ wk = IdleWalk
  /\ documents = <<>>
  /\ chunks = {}
  /\ nextChunkId = 1
  /\ vectorStore = {}
  /\ ix = [p \in IndexerIds |-> IdleIndex]
  /\ sk = NoSearch
  /\ patterns = {}
  /\ nextPatternId = 1
  /\ pq = NoQuery
  /\ iu = [p \in UsageCallers |-> IdleUse]
  /\ now = 0
  /\ usageLog = <<>>

\* no call of the RAG service is under way or holds a result
Quiet == NoIndexing /\ sk.pc = "idle"

\* Documents on Meta and on Instagram, one call of the RAG service at a time,
\* searches from every kind of workspace.
NextRag ==
  \/ Quiet /\ \E w \in DocWorkspaces : createKnowledgeDocument(w, ContentShort)
  \/ Quiet /\ \E d \in DocIds : deleteKnowledgeDocument(d)
  \/ Quiet /\ \E b \in ChunkBatches : createKnowledgeChunks(1, b)
  \/ Quiet /\ \E d \in DocIds : IndexStart("first", d)
  \/ Quiet /\ loadEmbeddings
  \/ Quiet /\ Restart
  \/ Quiet /\ \E q \in Queries, w \in SearchWorkspaces, l \in Limits : searchKnowledge(q, w, l)
  \/ SearchReturn
  \/ IndexDelete("first")
  \/ IndexInsert("first")
  \/ IndexUpdateCount("first")
  \/ IndexReturn("first")

SpecRag == InitRag /\ [][NextRag]_vars

\* One workspace; documents are edited and re-indexed while chunks are written,
\* deleted, loaded and searched between the statements of indexDocument.
NextIndex ==
  \/ sk.pc = "idle" /\ \E c \in Contents : createKnowledgeDocument(1, c)
  \/ sk.pc = "idle" /\ \E d \in DocIds, c \in Contents : updateKnowledgeDocument(d, [content |-> c])
  \/ sk.pc = "idle" /\ \E b \in ChunkBatches : createKnowledgeChunks(1, b)
  \/ sk.pc = "idle" /\ \E d \in DocIds : deleteChunksForDocument(d)
  \/ sk.pc = "idle" /\ \E d \in DocIds : IndexStart("first", d)
  \/ sk.pc = "idle" /\ IndexDelete("first")
  \/ sk.pc = "idle" /\ IndexInsert("first")
  \/ sk.pc = "idle" /\ IndexUpdateCount("first")
  \/ sk.pc = "idle" /\ IndexReturn("first")
  \/ sk.pc = "idle" /\ loadEmbeddings
  \/ sk.pc = "idle" /\ searchKnowledge(QuerySave, 1, DefaultLimit)
  \/ SearchReturn

SpecIndex == InitRag /\ [][NextIndex]_vars

\* the limits a caller passes to listPatterns and searchPatterns
PatternLimits == {1, DefaultFindLimit}

\* the component type argument of listPatterns and searchPatterns
OptionalTypes == {Undefined} \cup {Some(t) : t \in ComponentTypes}

\* Two users write and read patterns, one call at a time.
NextPat ==
  \/ pq.op = "none" /\ \E data \in NewPatterns : createPattern(data)
  \/ pq.op = "none" /\ \E batch \in ImportBatches : importPatterns(batch)
  \/ pq.op = "none" /\ \E id \in 1..MaxPatternId, data \in PatternUpdates : updatePattern(id, data)
  \/ pq.op = "none" /\ \E id \in 1..MaxPatternId : deletePattern(id)
  \/ pq.op = "none" /\ \E id \in 1..MaxPatternId : incrementUsage(id)
  \/ pq.op = "none" /\ \E u \in UserIds, t \in OptionalTypes, l \in PatternLimits, o \in {0, 1} :
       listPatterns(u, t, l, o)
  \/ pq.op = "none" /\ \E u \in UserIds, q \in PatternQueries, t \in OptionalTypes, l \in PatternLimits :
       searchPatterns(u, q, t, l)
  \/ pq.op = "none" /\ \E u \in UserIds, t \in ComponentTypes, l \in {Undefined, Some(1)} :
       findSimilarPatterns(u, t, l)
  \/ QueryReturn

SpecPat == InitWs /\ [][NextPat]_vars

\* two button patterns of user 1, created at time 0 and not used yet
SeedPatterns ==
  {PatternRow(id, [userId |-> 1, componentType |-> "button", text |-> TextSave], 0) :
     id \in {1, 2}}

InitUsage ==
  /\ dbAvailable = TRUE
  /\ queryFails = FALSE
  /\ ret = NoCall
  /\ cs = IdleChat
  /\ ck = IdleChunk
  /\ rpc = IdleRpc
  /\ rd = IdleReaders
  /\ workspaces = <<>>
  /\ wk = IdleWalk
  /\ documents = <<>>
  /\ chunks = {}
  /\ nextChunkId = 1
  /\ vectorStore = {}
  /\ ix = [p \in IndexerIds |-> IdleIndex]
  /\ sk = NoSearch
  /\ patterns = SeedPatterns
  /\ nextPatternId = 3
  /\ pq = NoQuery
  /\ iu = [p \in UsageCallers |-> IdleUse]
  /\ now = 0
  /\ usageLog = [id \in {1, 2} |-> [called |-> 0, recent |-> Never]]

\* Two callers record usage of the two patterns while the clock runs and the
\* patterns are edited and deleted.
NextUsage ==
  \/ \E p \in UsageCallers, id \in {1, 2} : UseStart(p, id)
  \/ \E p \in UsageCallers : UseApply(p)
  \/ \E p \in UsageCallers : UseReturn(p)
  \/ Tick
  \/ \E id \in {1, 2} : updatePattern(id, [isApproved |-> FALSE])
  \/ deletePattern(2)

\* Chunks with a vector, with none and with a value that does not parse are
\* written to the document of Meta; the process restarts, loads and searches.
NextBad ==
  \/ Quiet /\ createKnowledgeDocument(1, ContentShort)
  \/ Quiet /\ \E b \in ChunkBatches \cup BadBatches : createKnowledgeChunks(1, b)
  \/ Quiet /\ loadEmbeddings
  \/ Quiet /\ Restart
  \/ Quiet /\ \E q \in Queries, l \in {1, DefaultLimit} : searchKnowledge(q, 1, l)
  \/ SearchReturn

SpecBad == InitRag /\ [][NextBad]_vars

\* Documents on Meta and on Instagram with chunks on the first; the vector
\* search and the searches of the workspace store from every kind of workspace.
NextScope ==
  \/ Quiet /\ \E w \in DocWorkspaces : createKnowledgeDocument(w, ContentShort)
  \/ Quiet /\ \E b \in ChunkBatches : createKnowledgeChunks(1, b)
  \/ Quiet /\ \E q \in Queries, w \in SearchWorkspaces : searchKnowledge(q, w, DefaultLimit)
  \/ SearchReturn
  \/ Quiet /\ \E w \in SearchWorkspaces : getInheritedKnowledgeDocuments(w)
  \/ Quiet /\ \E q \in Queries, w \in SearchWorkspaces : searchKnowledgeChunks(w, q)

SpecScope == InitRag /\ [][NextScope]_vars

\* One document at most; chunks are written for it and for a document that
\* does not exist, and both are indexed.
NextOrphan ==
  \/ Quiet /\ Len(documents) = 0 /\ createKnowledgeDocument(1, ContentShort)
  \/ Quiet /\ \E d \in DocIds, b \in ChunkBatches : createKnowledgeChunks(d, b)
  \/ Quiet /\ \E d \in DocIds : IndexStart("first", d)
  \/ Quiet /\ \E d \in DocIds : IndexMissing("first", d)
  \/ IndexDelete("first")
  \/ IndexInsert("first")
  \/ IndexUpdateCount("first")
  \/ IndexReturn("first")

SpecOrphan == InitRag /\ [][NextOrphan]_vars

\* A document on Meta with chunks, patterns of two users; the two context
\* builders are called, one call at a time.
NextContext ==
  \/ Quiet /\ pq.op = "none" /\ Len(documents) = 0 /\ createKnowledgeDocument(1, ContentShort)
  \/ Quiet /\ pq.op = "none" /\ updateKnowledgeDocument(1, [title |-> <<>>])
  \/ Quiet /\ pq.op = "none" /\
       \E b \in ChunkBatches \cup ToneBatches : createKnowledgeChunks(1, b)
  \/ Quiet /\ pq.op = "none" /\ IndexStart("first", 1)
  \/ IndexDelete("first")
  \/ IndexInsert("first")
  \/ IndexUpdateCount("first")
  \/ IndexReturn("first")
  \/ Quiet /\ pq.op = "none" /\ \E q \in Queries : getGenerationContext(q, 1)
  \/ SearchReturn
  \/ Quiet /\ pq.op = "none" /\
       \E u \in UserIds : createPattern([userId |-> u, componentType |-> "button",
                                         text |-> TextSave])
  \/ Quiet /\ pq.op = "none" /\ \E u \in UserIds : getPatternsAsContext(u, "button")
  \/ QueryReturn

SpecContext == InitRag /\ [][NextContext]_vars

\* A document with chunks on Meta and button patterns of two users are
\* written; then generation requests are made.
NextPrompt ==
  \/ cs.pc = "idle" /\ Len(documents) = 0 /\ createKnowledgeDocument(1, ContentShort)
  \/ cs.pc = "idle" /\ \E b \in ChunkBatches : createKnowledgeChunks(1, b)
  \/ cs.pc = "idle" /\
       \E u \in UserIds : createPattern([userId |-> u, componentType |-> "button",
                                         text |-> TextSave])
  \/ \E u \in UserIds, t \in OptionalTypes : ChatStart(u, t)
  \/ ChatContext
  \/ ChatConversation
  \/ ChatLLM
  \/ ChatReturn

SpecPrompt == InitRag /\ [][NextPrompt]_vars

SpecUsage == InitUsage /\ [][NextUsage]_vars

\* One generation request at a time while the clock runs and the patterns are
\* edited.
NextChat ==
  \/ \E u \in UserIds, t \in OptionalTypes : ChatStart(u, t)
  \/ ChatContext
  \/ ChatConversation
  \/ ChatLLM
  \/ ChatReturn
  \/ Tick
  \/ \E id \in {1, 2}, data \in PatternUpdates : updatePattern(id, data)

SpecChat == InitUsage /\ [][NextChat]_vars

\* The store with or without a handle; the database goes out of service and
\* comes back while usage is recorded and the operations are called.
InitFail ==
  /\ dbAvailable \in BOOLEAN
  /\ queryFails = FALSE
  /\ ret = NoCall
  /\ cs = IdleChat
  /\ ck = IdleChunk
  /\ rpc = IdleRpc
  /\ rd = IdleReaders
  /\ workspaces = <<>>
  /\ wk = IdleWalk
  /\ documents = <<>>
  /\ chunks = {}
  /\ nextChunkId = 1
  /\ vectorStore = {}
  /\ ix = [p \in IndexerIds |-> IdleIndex]
  /\ sk = NoSearch
  /\ patterns = SeedPatterns
  /\ nextPatternId = 3
  /\ pq = NoQuery
  /\ iu = [p \in UsageCallers |-> IdleUse]
  /\ now = 0
  /\ usageLog = [id \in {1, 2} |-> [called |-> 0, recent |-> Never]]

NextFail ==
  \/ Outage
  \/ Recover
  \/ \E op \in StoreOps : UnavailableCall(op)
  \/ \E p \in UsageCallers, id \in {1, 2} : UseStart(p, id)
  \/ \E p \in UsageCallers : ~queryFails /\ UseApply(p)
  \/ \E p \in UsageCallers : UseRejected(p)
  \/ \E p \in UsageCallers : UseReturn(p)
  \/ Tick

SpecFail == InitFail /\ [][NextFail]_vars

\* the scheduler keeps resuming a resolver whose lookup has returned
LiveSpecWs == SpecWs /\ WF_vars(HierarchyLoop) /\ WF_vars(AncestorsLoop)

(***************************************************************************)
(* Parent chains, as the claims speak of them                              *)
(***************************************************************************)
RECURSIVE NthAncestor(_, _)
\* the workspace k parent links above id (Null past the end of the chain)
NthAncestor(id, k) ==
  IF k = 0 THEN id
  ELSE LET a == NthAncestor(id, k - 1)
       IN  IF WsExists(a) THEN workspaces[a].parentId ELSE Null

\* the chain from id reaches a workspace without parent, every workspace on it existing
FullyResolvable(id) ==
  \E n \in 1..Len(workspaces) :
    /\ \A k \in 0..(n - 1) : WsExists(NthAncestor(id, k))
    /\ NthAncestor(id, n) = Null

ChainLength(id) ==
  CHOOSE n \in 1..Len(workspaces) :
    /\ \A k \in 0..(n - 1) : WsExists(NthAncestor(id, k))
    /\ NthAncestor(id, n) = Null

ExpectedChain(id) == [k \in 1..ChainLength(id) |-> NthAncestor(id, k - 1)]

\* the chain from id reaches an id that names no workspace
EndsAtMissing(id) ==
  \E n \in 0..Len(workspaces) :
    /\ \A k \in 0..(n - 1) : WsExists(NthAncestor(id, k))
    /\ NthAncestor(id, n) # Null
    /\ ~WsExists(NthAncestor(id, n))

(***************************************************************************)
(* Search scope and ranking, as the claims speak of them                   *)
(***************************************************************************)
\* W and the workspaces on W's parent chain
SelfAndAncestors(W) == {W} \cup ({NthAncestor(W, k) : k \in 1..Len(workspaces)} \ {Null})

\* the chunks with a persisted embedding of the active documents of W and of
\* W's ancestors
UsableInScope(W) ==
  {c \in chunks : /\ c.embedding # NoEmbedding
                  /\ DocExists(c.documentId)
                  /\ documents[c.documentId].isActive
                  /\ documents[c.documentId].workspaceId \in SelfAndAncestors(W)}

ResultIds(results) == {results[i].chunkId : i \in 1..Len(results)}

\* a search that knows no cache: every row is scored with its persisted embedding
RelationalResults(query, rows, limit) ==
  LET embedded == SelectSeq(rows, LAMBDA r : r.embedding # NoEmbedding)
      scored == [i \in 1..Len(embedded) |->
                   [chunkId |-> embedded[i].id, content |-> embedded[i].content,
                    documentId |-> embedded[i].documentId,
                    similarity |-> cosineSimilarity(EmbeddingOf(query), embedded[i].embedding[1])]]
  IN  Slice(SortBySimilarity(scored), limit)

(***************************************************************************)
(* Claims                                                                  *)
(***************************************************************************)

\* C1: every passage searchKnowledge(query, W, limit) returns is a chunk of an
\* active document attached to W or to a workspace on W's parent chain.
C1_SearchScoped ==
  sk.pc = "done" =>
    \A i \in 1..Len(sk.results) :
      LET r == sk.results[i]
      IN  /\ \E c \in chunks : c.id = r.chunkId /\ c.documentId = r.documentId
          /\ DocExists(r.documentId)
          /\ documents[r.documentId].isActive
          /\ documents[r.documentId].workspaceId \in SelfAndAncestors(sk.workspaceId)

\* a search from Horizon returns passages while an active document attached to
\* Instagram, a sibling of Horizon's parent, has an embedded chunk
C1_Witness ==
  /\ sk.pc = "done"
  /\ sk.workspaceId = 3
  /\ sk.results # <<>>
  /\ \E c \in chunks : /\ c.embedding # NoEmbedding
                       /\ documents[c.documentId].workspaceId = 4
                       /\ documents[c.documentId].isActive

\* C2: searchKnowledge(query, W, limit) returns min(limit, n) passages, all
\* different, n being the number of embedded chunks of the active documents of W
\* and its ancestors; none is left out for a low similarity.
C2_ReturnsMinLimitN ==
  sk.pc = "done" =>
    /\ Len(sk.results) = Min({sk.limit, Cardinality(UsableInScope(sk.workspaceId))})
    /\ Cardinality(ResultIds(sk.results)) = Len(sk.results)
    /\ ResultIds(sk.results) \subseteq {c.id : c \in UsableInScope(sk.workspaceId)}

\* a search from Horizon, two levels below Meta, returns the chunk of a document
\* attached to Meta although its similarity to the query is zero
C2_Witness ==
  /\ sk.pc = "done"
  /\ sk.workspaceId = 3
  /\ sk.limit = DefaultLimit
  /\ sk.results # <<>>
  /\ \A i \in 1..Len(sk.results) :
       /\ documents[sk.results[i].documentId].workspaceId = 1
       /\ sk.results[i].similarity.num = 0

\* C3: what findSimilarPatterns, searchPatterns and listPatterns return for
\* userId = u are patterns of the table whose userId is u.
C3_PatternsOfUserOnly ==
  pq.op # "none" =>
    \A i \in 1..Len(pq.results) :
      /\ pq.results[i] \in patterns
      /\ pq.results[i].userId = pq.userId

\* findSimilarPatterns returns a pattern of its user while the other user owns
\* an approved pattern of the same component type and text
C3_Witness ==
  /\ pq.op = "find"
  /\ pq.results # <<>>
  /\ \E r \in patterns : /\ r.userId # pq.userId
                         /\ r.isApproved
                         /\ r.componentType = pq.results[1].componentType
                         /\ r.text = pq.results[1].text

\* C4: over a fully resolvable parent chain both resolvers return
\* [W, parent(W), ..., root], in that order, nothing repeated or skipped.
C4_OrderedChain ==
  (wk.pc = "done" /\ FullyResolvable(wk.start))
    => wk.result = ExpectedChain(wk.start)

C4_Witness ==
  /\ wk.pc = "done"
  /\ wk.kind = "hierarchy"
  /\ FullyResolvable(wk.start)
  /\ Len(wk.result) = 3

\* C5: a resolver whose chain runs into an id that names no workspace (the
\* start id included) comes to an end.
C5_TerminatesAtMissing ==
  [](((wk.pc = "loop") /\ EndsAtMissing(wk.start)) => <>(wk.pc # "loop"))

C5_Witness ==
  /\ wk.pc = "done"
  /\ wk.kind = "hierarchy"
  /\ Len(wk.result) >= 2
  /\ ~WsExists(wk.result[Len(wk.result)])

\* C6: after any createWorkspace, updateWorkspace and deleteWorkspace no
\* workspace is its own ancestor (every parent chain is acyclic and finite).
C6_ParentChainsAcyclic ==
  \A id \in 1..Len(workspaces), k \in 1..Len(workspaces) : NthAncestor(id, k) # id

\* C7: when indexDocument(D) has run to its end with no other write in between,
\* the chunks of D are the segments of chunkDocument(D.content), one chunk per
\* segment in insertion order with chunkIndex 0..n-1, each embedded from its own
\* text; no chunk D had before remains and D.chunkCount = n.
C7_IndexedExactly ==
  \A p \in IndexerIds :
    (ix[p].pc = "done" /\ ix[p].alone) =>
      LET d == ix[p].documentId
          segs == ChunksOf(documents[d].content)
          mine == {c \in chunks : c.documentId = d}
      IN  /\ Cardinality(mine) = Len(segs)
          /\ \A k \in 1..Len(segs) :
               \E c \in mine : /\ c.chunkIndex = k - 1
                               /\ c.content = segs[k]
                               /\ c.embedding = Some(EmbeddingOf(segs[k]))
          /\ \A c1, c2 \in mine : c1.chunkIndex < c2.chunkIndex => c1.id < c2.id
          /\ {c.id : c \in mine} \cap ix[p].discarded = {}
          /\ documents[d].chunkCount = Len(segs)

\* a document indexed before is indexed again, alone, into two chunks
C7_Witness ==
  \E p \in IndexerIds :
    /\ ix[p].pc = "done"
    /\ ix[p].alone
    /\ ix[p].discarded # {}
    /\ Len(ChunksOf(documents[ix[p].documentId].content)) = 2
    /\ documents[ix[p].documentId].chunkCount = 2

\* C8: when indexDocument(D) has re-indexed D, the vector cache holds no entry
\* for a chunk id the re-indexing discarded: every id in the cache is the id of a
\* persisted chunk.
C8_NoStaleVectors ==
  \A p \in IndexerIds :
    ix[p].pc = "done" =>
      /\ ix[p].discarded \cap StoreIds(vectorStore) = {}
      /\ ix[p].alone => StoreIds(vectorStore) \subseteq {c.id : c \in chunks}

\* C9: searchKnowledge returns what a search without any cache returns for the
\* same rows, whatever the cache held, and after it every row with a persisted
\* embedding is in the cache with that embedding.
C9_CacheIsOptimisation ==
  sk.pc = "done" =>
    /\ sk.results = RelationalResults(sk.query, sk.rows, sk.limit)
    /\ \A i \in 1..Len(sk.rows) :
         sk.rows[i].embedding # NoEmbedding =>
           /\ StoreHas(vectorStore, sk.rows[i].id)
           /\ StoreGet(vectorStore, sk.rows[i].id) = sk.rows[i].embedding[1]

\* a search over a partly populated cache: one returned passage was scored from
\* memory, another from its row and then added to the cache
C9_Witness ==
  /\ sk.pc = "done"
  /\ \E i, j \in 1..Len(sk.results) :
       /\ sk.results[i].chunkId \in sk.backfilled
       /\ sk.results[j].chunkId \notin sk.backfilled

\* C10: the passages of searchKnowledge are in non-increasing similarity, those
\* of exactly equal similarity in ascending chunk id.
C10_SortedTiesByChunkId ==
  sk.pc = "done" =>
    \A i, j \in 1..Len(sk.results) :
      i < j => /\ ~SimGreater(sk.results[j].similarity, sk.results[i].similarity)
               /\ SimEqual(sk.results[i].similarity, sk.results[j].similarity)
                    => sk.results[i].chunkId < sk.results[j].chunkId

\* the half of C10 the sort does give: non-increasing similarity
SortedBySimilarity ==
  sk.pc = "done" =>
    \A i, j \in 1..Len(sk.results) :
      i < j => ~SimGreater(sk.results[j].similarity, sk.results[i].similarity)

\* pattern a comes before pattern b under usageCount descending, then createdAt
\* descending
RanksAbove(a, b) ==
  \/ a.usageCount > b.usageCount
  \/ a.usageCount = b.usageCount /\ a.createdAt > b.createdAt

\* the approved patterns of a user and component type
ApprovedOf(userId, componentType) ==
  {r \in patterns : r.userId = userId /\ r.componentType = componentType /\ r.isApproved}

\* the limit findSimilarPatterns applies when called with limit
EffectiveLimit(limit) == IF limit = Undefined THEN DefaultFindLimit ELSE limit[1]

\* C11: findSimilarPatterns(userId, componentType, limit) returns at most limit
\* patterns, all approved and of that user and component type, by usageCount
\* descending then createdAt descending, and they are the first of that order:
\* no pattern left out ranks above one returned.
C11_FindRanked ==
  pq.op = "find" =>
    LET all == ApprovedOf(pq.userId, pq.componentType[1])
        n == Len(pq.results)
        got == {pq.results[i] : i \in 1..n}
    IN  /\ n = IF EffectiveLimit(pq.limit) < Cardinality(all)
                 THEN EffectiveLimit(pq.limit) ELSE Cardinality(all)
        /\ Cardinality(got) = n
        /\ got \subseteq all
        /\ \A i, j \in 1..n : i < j => ~RanksAbove(pq.results[j], pq.results[i])
        /\ \A r \in all \ got : \A i \in 1..n : ~RanksAbove(r, pq.results[i])

\* two approved button patterns of one user, one used more than the other:
\* findSimilarPatterns with limit 1 returns the one used more, alone
C11_Witness ==
  /\ pq.op = "find"
  /\ pq.limit = Some(1)
  /\ Len(pq.results) = 1
  /\ \E r \in ApprovedOf(pq.userId, pq.componentType[1]) :
       r.usageCount < pq.results[1].usageCount

\* no incrementUsage call on pattern id has still to reach the database
UsageSettled(id) == \A p \in UsageCallers : iu[p].pc = "update" => iu[p].id # id

\* C12: once the incrementUsage calls made on a pattern have all reached the
\* database, its usageCount is up by the number of calls and its lastUsedAt is
\* the time of the latest call, in any interleaving.
C12_UsageExact ==
  \A r \in patterns :
    (r.id \in DOMAIN usageLog /\ UsageSettled(r.id)) =>
      /\ r.usageCount = usageLog[r.id].called
      /\ r.lastUsedAt = usageLog[r.id].recent

\* the half of C12 that holds: each call adds exactly 1, none is lost
UsageCounted ==
  \A r \in patterns :
    (r.id \in DOMAIN usageLog /\ UsageSettled(r.id)) =>
      r.usageCount = usageLog[r.id].called

\* usageCount never decreases, and a step changes the counters of one pattern at most
UsageMonotone ==
  [][/\ \A r \in patterns : \A q \in patterns' : q.id = r.id => q.usageCount >= r.usageCount
     /\ Cardinality({r \in patterns : \E q \in patterns' :
                       /\ q.id = r.id
                       /\ <<q.usageCount, q.lastUsedAt>> # <<r.usageCount, r.lastUsedAt>>}) <= 1]_vars

(***************************************************************************)
(* C13: recording usage is fire-and-forget: when the update statement      *)
(* inside incrementUsage fails, the failure does not reach the caller, the *)
(* call of incrementUsage returns normally.                                *)
(***************************************************************************)
C13_UsageFailureNotPropagated ==
  ret.op = "incrementUsage" => ret.outcome # "threw"

(***************************************************************************)
(* C14: no step of chat.send taken before the LLM call has returned        *)
(* successfully changes the usageCount or lastUsedAt of a pattern, and     *)
(* when the LLM call failed every pattern has the counters it had when the *)
(* request began.                                                          *)
(***************************************************************************)
C14_NoUsageBeforeReply ==
  /\ [][(cs' # cs /\ cs.pc # "reply") => Counters(patterns') = Counters(patterns)]_vars
  /\ []((cs.pc = "failed" /\ cs.llm = "failed") => Counters(patterns) = cs.before)

\* the request put patterns into the prompt and its LLM call failed
C14_Witness ==
  /\ cs.pc = "failed"
  /\ cs.llm = "failed"
  /\ Len(cs.patternContext) = 3

\* the candidates of the search held in sk that have an embedding to score:
\* one in memory when the search began, or a column that parses
ValidCandidates ==
  {r \in Range(sk.rows) :
     \/ r.id \in StoreIds(vectorStore) \ sk.backfilled
     \/ (r.embedding # NoEmbedding /\ Parses(r.embedding[1]))}

\* the candidates whose column holds a value that does not parse
BadCandidates ==
  {r \in Range(sk.rows) : r.embedding # NoEmbedding /\ ~Parses(r.embedding[1])}

(***************************************************************************)
(* C15: a candidate chunk whose stored embedding does not parse, or is     *)
(* absent, is skipped by searchKnowledge and the other candidates are      *)
(* still scored: the search returns min(limit, valid candidates) passages, *)
(* all of them valid candidates.  loadEmbeddings skips the bad record and  *)
(* caches every other stored embedding; no bad value enters the cache.     *)
(***************************************************************************)
C15_BadEmbeddingSkipped ==
  /\ [](sk.pc = "done" =>
          /\ ResultIds(sk.results) \subseteq {r.id : r \in ValidCandidates}
          /\ Len(sk.results) = Min({sk.limit, Cardinality(ValidCandidates)}))
  /\ [](\A e \in vectorStore : Parses(e.embedding))
  /\ [][loadEmbeddings =>
          \A c \in chunks :
            c.id \in StoreIds(vectorStore') <=>
              \/ c.id \in StoreIds(vectorStore)
              \/ (c.embedding # NoEmbedding /\ Parses(c.embedding[1]))]_vars

\* a search over two candidates, one with a value that does not parse and
\* one with a vector, returned the one with the vector
C15_Witness ==
  /\ sk.pc = "done"
  /\ Cardinality(BadCandidates \ ValidCandidates) = 1
  /\ Len(sk.results) = 1
  /\ sk.limit = DefaultLimit
  /\ Len(sk.rows) = 2

(***************************************************************************)
(* C16: when the store is unavailable (getDb gives no handle, or the       *)
(* database rejects a statement) every read operation returns an empty     *)
(* result and does not throw.                                              *)
(***************************************************************************)
C16_ReadsDegradeToEmpty ==
  (ret.op \in ReadOps /\ ret.store # "ok") => (ret.outcome = "returned" /\ ret.empty)

(***************************************************************************)
(* C17: when the store is unavailable every write operation (createPattern,*)
(* importPatterns, updatePattern, deletePattern, indexDocument) raises an  *)
(* error; none returns normally.                                           *)
(***************************************************************************)
C17_WritesRaise ==
  (ret.op \in WriteOps /\ ret.store # "ok") => ret.outcome = "threw"

\* no document is attached to workspace w or to one of its ancestors (none,
\* too, when w does not exist)
EmptyScope(w) ==
  \A d \in 1..Len(documents) : documents[d].workspaceId \notin SelfAndAncestors(w)

ScopeSearches == {"searchKnowledgeChunks", "getInheritedKnowledgeDocuments"}

(***************************************************************************)
(* C18: with the store available, a knowledge search over a workspace with *)
(* no documents in its scope, or over a workspace id that does not exist,  *)
(* returns the empty list and does not throw: searchKnowledge,             *)
(* searchKnowledgeChunks and getInheritedKnowledgeDocuments.               *)
(***************************************************************************)
C18_EmptyScopeReturnsEmpty ==
  /\ (sk.pc = "done" /\ EmptyScope(sk.workspaceId)) => sk.results = <<>>
  /\ (ret.op \in ScopeSearches /\ EmptyScope(ret.arg)) =>
       (ret.outcome = "returned" /\ ret.empty)

\* the same for the workspaces that exist
EmptyScopeOfExisting ==
  /\ (sk.pc = "done" /\ EmptyScope(sk.workspaceId)) => sk.results = <<>>
  /\ (ret.op \in ScopeSearches /\ WsExists(ret.arg) /\ EmptyScope(ret.arg)) =>
       (ret.outcome = "returned" /\ ret.empty)

(***************************************************************************)
(* C19: creating chunks for a document that does not exist throws and      *)
(* persists nothing, through indexDocument and through                     *)
(* createKnowledgeChunks: every persisted chunk belongs to an existing     *)
(* document.                                                               *)
(***************************************************************************)
C19_ChunksOfExistingDocuments ==
  \A c \in chunks : DocExists(c.documentId)

\* the half about indexDocument: for a document that does not exist it throws
\* and leaves the tables and the vector store as they were
IndexOfMissingThrows ==
  [][\A d \in DocIds :
       IndexMissing("first", d) =>
         /\ ret'.outcome = "threw"
         /\ UNCHANGED <<documents, chunks, vectorStore>>]_vars

\* a context is empty, or its header is followed by a line
SectionHasContent(context) == context = <<>> \/ Len(context) >= 2

(***************************************************************************)
(* C20: a context section is never emitted without content:                *)
(* getGenerationContext returns "" whenever no passage found is above the  *)
(* relevance floor, getPatternsAsContext returns "" whenever no pattern    *)
(* matches, and a header is in the output only with a line after it.       *)
(***************************************************************************)
C20_NoEmptySection ==
  /\ sk.pc = "done" => SectionHasContent(GenerationContext(sk.results))
  /\ pq.op = "find" => SectionHasContent(PatternsAsContext(pq.results))

\* the half about getPatternsAsContext
PatternSectionHasContent ==
  pq.op = "find" =>
    /\ SectionHasContent(PatternsAsContext(pq.results))
    /\ (pq.results = <<>> <=> PatternsAsContext(pq.results) = <<>>)

\* the passages of the search held in sk that are strictly above 0.1, in the
\* order of the search
PassagesAboveFloor ==
  SelectSeq(sk.results,
            LAMBDA r : r.similarity.num > 0 /\
                       100 * r.similarity.num * r.similarity.num > r.similarity.den2)

\* the lines of the text getGenerationContext returns for the search held in sk
ContextLines == Tail(GenerationContext(sk.results))

UpperCased(text) == [i \in 1..Len(text) |-> ToUpper(text[i])]

\* line i of the text is passage i above the floor
LineIsPassage(i) ==
  /\ ContextLines[i].id = PassagesAboveFloor[i].chunkId
  /\ ContextLines[i].content = PassagesAboveFloor[i].content
  /\ ContextLines[i].label.type =
       UpperCased(documents[PassagesAboveFloor[i].documentId].category)

(***************************************************************************)
(* C21: the knowledge part of the context holds exactly the passages of    *)
(* the search (its top 3) whose similarity is strictly above 0.1, in       *)
(* ranked order, each with a label of its document's category, in upper    *)
(* case, and its document's title, "Unknown" standing for an empty title;  *)
(* a passage at or below 0.1 is not in the text.                           *)
(***************************************************************************)
C21_PassagesAboveFloorLabelled ==
  (sk.pc = "done" /\ sk.results # <<>>) =>
    /\ Len(sk.results) <= GenerationLimit
    /\ Len(ContextLines) = Len(PassagesAboveFloor)
    /\ \A i \in 1..Len(ContextLines) :
         /\ LineIsPassage(i)
         /\ ContextLines[i].label.title =
              IF documents[PassagesAboveFloor[i].documentId].title = <<>>
                THEN TitleUnknown
                ELSE documents[PassagesAboveFloor[i].documentId].title

\* a search found three passages, two of them above the floor with different
\* similarities, and the text holds those two
C21_Witness ==
  /\ sk.pc = "done"
  /\ Len(sk.results) = 3
  /\ Len(ContextLines) = 2
  /\ SimGreater(sk.results[1].similarity, sk.results[2].similarity)
  /\ ContextLines[1].label.title = TitleGuide

\* C21 as it is worded: the label of every passage in the text carries the
\* title of the passage's document.
C21_LabelsCarryTitle ==
  (sk.pc = "done" /\ sk.results # <<>>) =>
    \A i \in 1..Len(ContextLines) :
      ContextLines[i].label.title = documents[PassagesAboveFloor[i].documentId].title

\* some workspace has, in its scope, a passage above the relevance floor for
\* the message q
KnowledgeFor(q) ==
  \E w \in 1..Len(workspaces) : \E c \in UsableInScope(w) :
    AboveFloor(cosineSimilarity(EmbeddingOf(q), c.embedding[1]))

\* the kinds of the sections of the prompt of the request in flight, in order
PromptKinds ==
  [i \in 1..Len(SystemPrompt(cs.patternContext)) |-> SystemPrompt(cs.patternContext)[i].kind]

\* the request in flight has its prompt built
PromptBuilt == cs.pc \in {"conversation", "llm", "reply"}

(***************************************************************************)
(* C22: the context handed to the LLM merges both retrieval sources: the   *)
(* knowledge section is in it whenever a workspace chain has a passage     *)
(* above the relevance floor, the pattern section whenever the user has a  *)
(* matching approved pattern, and the knowledge comes before the patterns. *)
(***************************************************************************)
C22_ContextMergesSources ==
  PromptBuilt =>
    /\ (\E q \in Queries : KnowledgeFor(q)) =>
         \E i \in 1..Len(PromptKinds) : PromptKinds[i] = "knowledge"
    /\ (cs.detectedType # Undefined /\ SimilarMatches(cs.userId, cs.detectedType[1]) # {}) =>
         \E i \in 1..Len(PromptKinds) : PromptKinds[i] = "patterns"
    /\ \A i, j \in 1..Len(PromptKinds) :
         (PromptKinds[i] = "knowledge" /\ PromptKinds[j] = "patterns") => i < j

\* the half about the patterns
PromptHasPatterns ==
  PromptBuilt =>
    ((cs.detectedType # Undefined /\ SimilarMatches(cs.userId, cs.detectedType[1]) # {})
       <=> \E i \in 1..Len(PromptKinds) : PromptKinds[i] = "patterns")

(***************************************************************************)
(* The chunker on its own: chunkDocument called with chosen arguments      *)
(***************************************************************************)
\* "Save your work. Don't lose progress. Click save often."
ContentExample ==
  <<83, 97, 118, 101, 32, 121, 111, 117, 114, 32, 119, 111, 114, 107, 46, 32,
    68, 111, 110, 39, 116, 32, 108, 111, 115, 101, 32, 112, 114, 111, 103,
    114, 101, 115, 115, 46, 32, 67, 108, 105, 99, 107, 32, 115, 97, 118, 101,
    32, 111, 102, 116, 101, 110, 46>>

\* " . ! ": delimiters and blanks only
ContentBlank ==
  <<32, 46, 32, 33, 32>>

\* "Always save your work before closing": one sentence of 36 characters
ContentSentence ==
  <<65, 108, 119, 97, 121, 115, 32, 115, 97, 118, 101, 32, 121, 111, 117,
    114, 32, 119, 111, 114, 107, 32, 98, 101, 102, 111, 114, 101, 32, 99,
    108, 111, 115, 105, 110, 103>>

\* "Save it. ! Then go.": a blank sentence between two others
ContentGap ==
  <<83, 97, 118, 101, 32, 105, 116, 46, 32, 33, 32, 84, 104, 101, 110, 32,
    103, 111, 46>>

ChunkContents ==
  {<<>>, ContentBlank, ContentShort, ContentSentence, ContentGap, ContentExample,
   ContentLong}

ChunkSizes == {5, 20, DefaultChunkSize}

Overlaps == {0, 5, 10, DefaultOverlap}

NextChunk ==
  \/ \E content \in ChunkContents, chunkSize \in ChunkSizes, overlap \in Overlaps :
       ChunkStart(content, chunkSize, overlap)
  \/ ChunkSentence
  \/ ChunkFinish
  \/ ChunkReturn

SpecChunk == InitWs /\ [][NextChunk]_vars

\* the stepwise call returns what the function computes
ChunkStepsAgree ==
  ck.pc = "done" => ck.chunks = chunkDocument(ck.content, ck.chunkSize, ck.overlap)

(***************************************************************************)
(* The overlap between consecutive chunks                                  *)
(***************************************************************************)
RECURSIVE SplitSpace(_)
\* the words of a text: the pieces between single spaces
SplitSpace(s) ==
  LET sp == {i \in 1..Len(s) : s[i] = Space}
  IN  IF sp = {} THEN <<s>>
      ELSE <<SubSeq(s, 1, Min(sp) - 1)>> \o SplitSpace(SubSeq(s, Min(sp) + 1, Len(s)))

RECURSIVE JoinSpace(_)
JoinSpace(words) ==
  IF words = <<>> THEN <<>>
  ELSE IF Len(words) = 1 THEN words[1]
  ELSE words[1] \o <<Space>> \o JoinSpace(Tail(words))

\* the last k words of a text, all of them when it has fewer, none when k = 0
TailWords(s, k) ==
  LET words == SplitSpace(s)
  IN  SubSeq(words, Max({1, Len(words) - k + 1}), Len(words))

\* a buffer that holds the given words and then the sentence
SeededWith(words, sentence) ==
  IF words = <<>> THEN sentence ELSE JoinSpace(words) \o <<Space>> \o sentence

StartsWith(s, prefix) ==
  Len(s) >= Len(prefix) /\ SubSeq(s, 1, Len(prefix)) = prefix

\* a step of the loop that emits the buffer as a chunk
EmitsChunk ==
  /\ ck.pc = "loop"
  /\ ck'.pc = "loop"
  /\ Len(ck'.chunks) = Len(ck.chunks) + 1

SeedsTail ==
  ck'.currentChunk =
    SeededWith(TailWords(ck.currentChunk, ck.overlap \div 5), Trim(Head(ck.sentences)))

\* the worked example: chunkSize 20, overlap 5
ExampleCall ==
  /\ ck.pc = "done"
  /\ ck.content = ContentExample
  /\ ck.chunkSize = 20
  /\ ck.overlap = 5

ExampleOverlaps ==
  ExampleCall =>
    /\ Len(ck.chunks) >= 2
    /\ StartsWith(ck.chunks[2], JoinSpace(TailWords(ck.chunks[1], 1)))

\* C23: whenever chunkDocument emits a chunk because the next sentence would
\* exceed chunkSize, the next buffer is exactly the last floor(overlap/5) words
\* of the emitted buffer followed by the triggering sentence, no words at all
\* when floor(overlap/5) = 0; and the worked example yields at least two
\* chunks, the second starting with the last word of the first.
C23_SeededWithOverlapTail ==
  /\ [][EmitsChunk => SeedsTail]_vars
  /\ []ExampleOverlaps

\* the same seeding for overlap >= 5, where at least one word is asked for
SeededFromFiveUp ==
  [][EmitsChunk /\ ck.overlap >= 5 => SeedsTail]_vars

\* with overlap < 5 the whole emitted buffer is carried into the next one
WholeBufferCarried ==
  [][EmitsChunk /\ ck.overlap < 5 =>
       ck'.currentChunk = ck.currentChunk \o <<Space>> \o Trim(Head(ck.sentences))]_vars

ExampleReached == ExampleCall /\ Len(ck.chunks) = 3

(***************************************************************************)
(* Reassembling the sentences from the chunks                              *)
(***************************************************************************)
\* the sentences of a text: the pieces between runs of delimiters that hold
\* more than white space, each without its surrounding white space
NonBlankSentences(content) ==
  LET pieces == RunsFrom(content, Delimiters, 1)
      kept == SelectSeq(pieces, LAMBDA s : \E i \in 1..Len(s) : s[i] \notin WhiteSpace)
  IN  [i \in 1..Len(kept) |-> Trim(kept[i])]

\* a chunk without the given leading tail
WithoutTail(chunk, tail) ==
  IF tail # <<>> /\ StartsWith(chunk, tail)
    THEN Trim(SubSeq(chunk, Len(tail) + 1, Len(chunk)))
    ELSE chunk

\* the leading part of a chunk that repeats its predecessor: the last k words
\* of the predecessor, all of it when it has fewer or when k = 0
OverlapTail(previous, k) ==
  IF k = 0 THEN previous ELSE JoinSpace(TailWords(previous, k))

\* what is left of the chunks once each later one has lost its overlap tail
Remainders(chunkList, k) ==
  [i \in 1..Len(chunkList) |->
     IF i = 1 THEN chunkList[1]
     ELSE WithoutTail(chunkList[i], OverlapTail(chunkList[i - 1], k))]

RECURSIVE WholeSentences(_, _)
\* for each of the texts the number of sentences, taken from the front of the
\* list in order, that it spells; -1 once a text spells no such run or
\* sentences are left over
WholeSentences(texts, sentences) ==
  IF texts = <<>> THEN IF sentences = <<>> THEN <<>> ELSE <<-1>>
  ELSE LET ns == {n \in 1..Len(sentences) :
                    JoinSpace(SubSeq(sentences, 1, n)) = Head(texts)}
       IN  IF ns = {} THEN <<-1>>
           ELSE <<Min(ns)>>
                  \o WholeSentences(Tail(texts),
                                    SubSeq(sentences, Min(ns) + 1, Len(sentences)))

SentencesPerChunk ==
  WholeSentences(Remainders(ck.chunks, ck.overlap \div 5), NonBlankSentences(ck.content))

BlankGivesNone ==
  ck.pc = "done" /\ ck.content = ContentBlank /\ ck.chunks = <<>>

\* a chunk above chunkSize that begins with an overlap tail
LongChunkWithTail ==
  /\ ck.pc = "done"
  /\ ck.overlap >= 5
  /\ \E i \in 2..Len(ck.chunks) :
       /\ Len(ck.chunks[i]) > ck.chunkSize
       /\ Remainders(ck.chunks, ck.overlap \div 5)[i] # ck.chunks[i]

(***************************************************************************)
(* Router: patterns.create, import, get, update, delete                    *)
(***************************************************************************)
\* the inputs the schemas of create and import let through: no userId
CreateInputs == [componentType : {"button"}, text : {TextSave}]

\* the updates the schema of update lets through
UpdateInputs == {[text |-> TextSaved], [isApproved |-> FALSE]}

\* patternDb.getPattern: results[0], undefined without a handle
getPattern(id) ==
  IF dbAvailable /\ PatternExists(id)
    THEN <<CHOOSE r \in patterns : r.id = id>> ELSE <<>>

\* the check without the comparison of the owner
OwnedBy_Any(pattern, userId) == pattern # <<>>

\* !(!pattern || pattern.userId !== ctx.user.id)
OwnedBy(pattern, userId) == pattern # <<>> /\ pattern[1].userId = userId

\* patterns.create: createPattern({ userId: ctx.user.id, ...input })
RpcCreate(userId, input) ==
  createPattern([userId |-> userId, componentType |-> input.componentType,
                 text |-> input.text])

\* patterns.import of two entries, each with userId: ctx.user.id
RpcImport(userId, input) ==
  importPatterns(<<[userId |-> userId, componentType |-> input.componentType,
                    text |-> input.text],
                   [userId |-> userId, componentType |-> input.componentType,
                    text |-> input.text]>>)

\* get, update and delete begin alike: const pattern = await getPattern(input.id)
RpcLoad(userId, op, id, updates) ==
  /\ rpc[userId].pc = "idle"
  /\ rpc' = [rpc EXCEPT ![userId] =
               [pc |-> "loaded", op |-> op, id |-> id, updates |-> updates,
                pattern |-> getPattern(id)]]
  /\ UNCHANGED <<rd, dbAvailable, queryFails, ret, cs, ck, wsVars, ragVars, patVars>>

\* the check of the owner, then the statement of update or delete
RpcDecide(userId) ==
  LET call == rpc[userId]
  IN  /\ call.pc = "loaded"
      /\ IF ~OwnedBy(call.pattern, userId)
           THEN /\ rpc' = [rpc EXCEPT ![userId] =
                             [pc |-> "done", op |-> call.op, id |-> call.id,
                              pattern |-> call.pattern, outcome |-> "NOT_FOUND"]]
                /\ UNCHANGED patterns
           ELSE /\ rpc' = [rpc EXCEPT ![userId] =
                             [pc |-> "done", op |-> call.op, id |-> call.id,
                              pattern |-> call.pattern, outcome |-> "ok"]]
                /\ patterns' =
                     IF ~dbAvailable \/ call.op = "get" THEN patterns
                     ELSE IF call.op = "update"
                       THEN {IF r.id = call.id THEN ApplyPatternUpdate(r, call.updates)
                             ELSE r : r \in patterns}
                       ELSE {r \in patterns : r.id # call.id}
      /\ UNCHANGED <<rd, dbAvailable, queryFails, ret, cs, ck, wsVars, ragVars,
                     nextPatternId, pq, usageVars>>

\* the answer leaves the server
RpcReturn(userId) ==
  /\ rpc[userId].pc = "done"
  /\ rpc' = [rpc EXCEPT ![userId] = [pc |-> "idle"]]
  /\ UNCHANGED <<rd, dbAvailable, queryFails, ret, cs, ck, wsVars, ragVars, patVars>>

\* Two users call the patterns router; their requests interleave.
NextRpc ==
  \/ \E u \in UserIds, input \in CreateInputs : RpcCreate(u, input)
  \/ \E u \in UserIds, input \in CreateInputs : RpcImport(u, input)
  \/ \E u \in UserIds, id \in 1..MaxPatternId : RpcLoad(u, "get", id, <<>>)
  \/ \E u \in UserIds, id \in 1..MaxPatternId, updates \in UpdateInputs :
       RpcLoad(u, "update", id, updates)
  \/ \E u \in UserIds, id \in 1..MaxPatternId : RpcLoad(u, "delete", id, <<>>)
  \/ \E u \in UserIds : RpcDecide(u)
  \/ \E u \in UserIds : RpcReturn(u)

SpecRpc == InitWs /\ [][NextRpc]_vars

(***************************************************************************)
(* Ownership at the router                                                 *)
(***************************************************************************)
\* the request of the user names a pattern that was not theirs, or no pattern,
\* when it was looked up
NotOwnersCall(userId) ==
  /\ rpc[userId].pc \in {"loaded", "done"}
  /\ \A i \in 1..Len(rpc[userId].pattern) : rpc[userId].pattern[i].userId # userId

NonOwnerAnswered ==
  \A u \in UserIds :
    rpc[u].pc = "done" /\ NotOwnersCall(u) => rpc[u].outcome = "NOT_FOUND"

NonOwnerWritesNothing ==
  \A u \in UserIds :
    rpc[u].pc = "loaded" /\ rpc'[u].pc = "done" /\ NotOwnersCall(u) =>
      patterns' = patterns

OwnerKept ==
  \A r \in patterns : \A q \in patterns' : r.id = q.id => r.userId = q.userId

\* C26: patterns.get, update and delete called by a user who does not own the
\* pattern, or with an id of no pattern, answer NOT_FOUND and change no
\* pattern; and no step of any request of the router changes the userId of a
\* pattern.
C26_OnlyOwnerReadsAndWrites ==
  /\ []NonOwnerAnswered
  /\ [][NonOwnerWritesNothing]_vars
  /\ [][OwnerKept]_vars

\* an update of another user's pattern was refused and the pattern is as it was
C26_Witness ==
  \E u \in UserIds :
    /\ rpc[u].pc = "done"
    /\ rpc[u].op = "update"
    /\ rpc[u].pattern # <<>>
    /\ rpc[u].pattern[1].userId # u
    /\ rpc[u].outcome = "NOT_FOUND"
    /\ rpc[u].pattern[1] \in patterns

\* the owner's update and delete go through
OwnerWrote ==
  \E u \in UserIds :
    /\ rpc[u].pc = "done"
    /\ rpc[u].op = "delete"
    /\ rpc[u].outcome = "ok"
    /\ ~PatternExists(rpc[u].id)

\* a request for an id of no pattern was refused
MissingRefused ==
  \E u \in UserIds :
    rpc[u].pc = "done" /\ rpc[u].pattern = <<>> /\ rpc[u].outcome = "NOT_FOUND"

(***************************************************************************)
(* Readers during a re-index                                               *)
(***************************************************************************)
\* indexDocument of the caller has deleted the old chunks and not yet inserted
\* its last new one
ReindexWindow(p) == ix[p].pc = "insert"

\* the rows of the document a finished search read
SeenOf(documentId) == {r \in Range(sk.rows) : r.documentId = documentId}

\* C27: re-indexing is not isolated from readers: a searchKnowledge that runs
\* between the delete of indexDocument(D) and the insert of its last chunk
\* reads, and computes its passages from, only the chunks inserted so far,
\* none or some of the n that D has before and after.
C27_ReaderSeesPartialIndex ==
  \A p \in IndexerIds :
    (sk.pc = "done" /\ ReindexWindow(p) /\ ix[p].alone) =>
      LET d == ix[p].documentId
      IN  /\ {c.chunkIndex : c \in SeenOf(d)} = 0..(ix[p].i - 1)
          /\ Cardinality(SeenOf(d)) = ix[p].i
          /\ Cardinality(SeenOf(d)) < Len(ChunksOf(ix[p].content))
          /\ SeenOf(d) \cap {c \in chunks : c.id \in ix[p].discarded} = {}
          /\ \A j \in 1..Len(sk.results) :
               sk.results[j].documentId = d =>
                 sk.results[j].chunkId \in {c.id : c \in SeenOf(d)}

\* a document of two chunks, indexed in full before, is searched when the
\* re-index has inserted the first chunk only: one passage instead of two
C27_Witness ==
  \E p \in IndexerIds :
    /\ sk.pc = "done"
    /\ ReindexWindow(p)
    /\ ix[p].alone
    /\ Cardinality(ix[p].discarded) = 2
    /\ Len(ChunksOf(ix[p].content)) = 2
    /\ ix[p].i = 1
    /\ Cardinality(SeenOf(ix[p].documentId)) = 1
    /\ Len(sk.results) = 1

\* the same document searched right after the delete: no passage at all
ReaderSeesNone ==
  \E p \in IndexerIds :
    /\ sk.pc = "done"
    /\ ReindexWindow(p)
    /\ ix[p].alone
    /\ Cardinality(ix[p].discarded) = 2
    /\ ix[p].i = 0
    /\ sk.rows = <<>>
    /\ sk.results = <<>>

(***************************************************************************)
(* rag: the vector store between the statements of its three writers       *)
(***************************************************************************)
\* one turn of the for loop of indexDocument, first half: await db.insert
IndexInsertRow(p) ==
  /\ ix[p].pc = "insert"
  /\ nextChunkId <= MaxChunkId
  /\ LET segs == ChunksOf(ix[p].content)
     IN  chunks' = chunks \cup
                     {IndexedRow(ix[p].documentId, ix[p].i, segs[ix[p].i + 1], nextChunkId)}
  /\ ix' = [q \in DOMAIN ix |->
              IF q = p
                THEN [pc |-> "cache", documentId |-> ix[p].documentId,
                      content |-> ix[p].content, i |-> ix[p].i, alone |-> ix[p].alone,
                      discarded |-> ix[p].discarded, insertId |-> nextChunkId]
                ELSE Interleave(ix)[q]]
  /\ nextChunkId' = nextChunkId + 1
  /\ UNCHANGED <<documents, vectorStore, sk, envVars, wsVars, patVars>>

\* second half: vectorStore.set(Number(inserted.insertId), embedding)
IndexCache(p) ==
  /\ ix[p].pc = "cache"
  /\ LET segs == ChunksOf(ix[p].content)
     IN  /\ vectorStore' = StoreSet(vectorStore, ix[p].insertId,
                                    EmbeddingOf(segs[ix[p].i + 1]))
         /\ ix' = [ix EXCEPT ![p] =
                     [pc |-> IF ix[p].i + 1 = Len(segs) THEN "count" ELSE "insert",
                      documentId |-> ix[p].documentId, content |-> ix[p].content,
                      i |-> ix[p].i + 1, alone |-> ix[p].alone,
                      discarded |-> ix[p].discarded]]
  /\ UNCHANGED <<documents, chunks, nextChunkId, sk, envVars, wsVars, patVars>>

\* loadEmbeddings: the select of the rows whose embedding IS NOT NULL
LoadSelect ==
  /\ rd.load.pc = "idle"
  /\ dbAvailable
  /\ rd' = [rd EXCEPT !.load = [pc |-> "selected",
                                rows |-> {c \in chunks : c.embedding # NoEmbedding}]]
  /\ UNCHANGED <<dbAvailable, queryFails, ret, cs, ck, rpc, wsVars, ragVars, patVars>>

\* loadEmbeddings: the for loop over the rows selected
LoadSet ==
  /\ rd.load.pc = "selected"
  /\ LET loaded == {c \in rd.load.rows : Parsed(c.embedding) # NoEmbedding}
     IN  vectorStore' =
           {e \in vectorStore : e.id \notin {c.id : c \in loaded}}
             \cup {[id |-> c.id, embedding |-> Parsed(c.embedding)[1]] : c \in loaded}
  /\ rd' = [rd EXCEPT !.load = [pc |-> "idle"]]
  /\ UNCHANGED <<dbAvailable, queryFails, ret, cs, ck, rpc, wsVars, patVars,
                 documents, chunks, nextChunkId, ix, sk>>

\* searchKnowledge: the select of the chunks of the workspaces
SearchSelect(query, workspaceId) ==
  /\ rd.search.pc = "idle"
  /\ dbAvailable
  /\ getWorkspaceHierarchy(workspaceId).pc = "done"
  /\ \E rows \in RowOrders(CandidateChunks(Range(getWorkspaceHierarchy(workspaceId).result))) :
       rd' = [rd EXCEPT !.search = [pc |-> "selected", query |-> query, rows |-> rows]]
  /\ UNCHANGED <<dbAvailable, queryFails, ret, cs, ck, rpc, wsVars, ragVars, patVars>>

\* searchKnowledge: the for loop over the rows selected, memory first
SearchLoop ==
  /\ rd.search.pc = "selected"
  /\ vectorStore' = StoreAfterSearch(vectorStore, rd.search.rows)
  /\ rd' = [rd EXCEPT !.search = [pc |-> "idle"]]
  /\ UNCHANGED <<dbAvailable, queryFails, ret, cs, ck, rpc, wsVars, patVars,
                 documents, chunks, nextChunkId, ix, sk>>

\* Two indexDocument calls, a loadEmbeddings and a searchKnowledge take their
\* steps in any order.
NextCache ==
  \/ \E c \in Contents : createKnowledgeDocument(1, c)
  \/ \E p \in IndexerIds, d \in DocIds : IndexStart(p, d)
  \/ \E p \in IndexerIds : IndexDelete(p)
  \/ \E p \in IndexerIds : IndexInsertRow(p)
  \/ \E p \in IndexerIds : IndexCache(p)
  \/ \E p \in IndexerIds : IndexUpdateCount(p)
  \/ \E p \in IndexerIds : IndexReturn(p)
  \/ LoadSelect
  \/ LoadSet
  \/ SearchSelect(QuerySave, 1)
  \/ SearchLoop

SpecCache == InitRag /\ [][NextCache]_vars

(***************************************************************************)
(* The vector store against the table                                      *)
(***************************************************************************)
\* C28: whatever the order of the steps of indexDocument, loadEmbeddings and
\* searchKnowledge, an entry of the vector store whose id is the id of a
\* persisted chunk is a whole vector, the one persisted with that chunk.
C28_CacheEqualsPersisted ==
  \A e \in vectorStore : \A c \in chunks :
    e.id = c.id =>
      /\ c.embedding = Some(e.embedding)
      /\ DOMAIN e.embedding \subseteq 0..(Dimensions - 1)

\* a reader put the vector of a chunk into the store between the insert of
\* indexDocument and its own vectorStore.set
C28_Witness ==
  \E p \in IndexerIds :
    /\ ix[p].pc = "cache"
    /\ StoreHas(vectorStore, ix[p].insertId)
    /\ \E c \in chunks : c.id = ix[p].insertId

(***************************************************************************)
(* Two indexDocument calls on one document                                 *)
(***************************************************************************)
BothIndexed(documentId) ==
  \A p \in IndexerIds : ix[p].pc = "done" /\ ix[p].documentId = documentId

\* C29: once two indexDocument(D) calls have both run to their end, in
\* whatever order their statements were taken, D has exactly one persisted
\* chunk for each chunkIndex 0..n-1 and D.chunkCount is the number of its
\* persisted chunks.
C29_ConcurrentIndexOneChunkSet ==
  \A d \in DocIds :
    (DocExists(d) /\ BothIndexed(d)) =>
      LET mine == {c \in chunks : c.documentId = d}
          n == Len(ChunksOf(documents[d].content))
      IN  /\ \A k \in 0..(n - 1) : Cardinality({c \in mine : c.chunkIndex = k}) = 1
          /\ {c.chunkIndex : c \in mine} = 0..(n - 1)
          /\ documents[d].chunkCount = Cardinality(mine)

\* two calls that did not overlap leave one chunk per segment
BothIndexedInTurn ==
  \E d \in DocIds :
    /\ DocExists(d)
    /\ BothIndexed(d)
    /\ Cardinality({c \in chunks : c.documentId = d}) = documents[d].chunkCount
    /\ documents[d].chunkCount > 0

(***************************************************************************)
(* The cached chunk count                                                  *)
(***************************************************************************)
PersistedCount(documentId) == Cardinality({c \in chunks : c.documentId = documentId})

\* C30: whenever no indexDocument call is under way, after any sequence of
\* indexDocument, createKnowledgeChunks and deleteChunksForDocument, the
\* chunkCount of each document is the number of chunks persisted for it.
C30_ChunkCountMatches ==
  NoIndexing =>
    \A d \in 1..Len(documents) : documents[d].chunkCount = PersistedCount(d)

\* after an indexDocument that ran alone the count matches
CountMatchesAfterIndex ==
  \A p \in IndexerIds :
    (ix[p].pc = "done" /\ ix[p].alone) =>
      documents[ix[p].documentId].chunkCount = PersistedCount(ix[p].documentId)

\* a document whose chunks were deleted keeps its count
CountAfterDelete ==
  \E d \in 1..Len(documents) :
    NoIndexing /\ PersistedCount(d) = 0 /\ documents[d].chunkCount > 0

\* a document that got a second list of chunks counts the last list only
CountAfterSecondList ==
  \E d \in 1..Len(documents) :
    NoIndexing /\ PersistedCount(d) > documents[d].chunkCount

====
